---- MODULE Spec2Model ----
(***************************************************************************)
(* Model of the thai-language.com dictionary fetcher                       *)
(* (src/thai_language/fetch.py, utils.py, types.py): the sqlite cache      *)
(* (entries, redirects, words, pronounciations, media), the lazily         *)
(* initialised session, the thread-local recursion guard, and the public   *)
(* operations get_entry and get_media_data; and of the plugin               *)
(* (src/__init__.py) that runs them on background workers under one lock.  *)
(*                                                                         *)
(* Every public operation is one action.  Its body is the operation's code *)
(* translated into operators that thread a call context C (the cache, the  *)
(* session flag, the guard's key set, the requests issued so far) through  *)
(* the statements in program order, and that return a result record        *)
(*     [c |-> context after, ok |-> returned normally?, val |-> value]     *)
(* where an exception is ok = FALSE with val the exception.                *)
(***************************************************************************)
EXTENDS Integers, Sequences, FiniteSets, TLC

VARIABLES
    site,                 \* what the web site serves (fixed per behaviour)
    entries,              \* table entries:    id -> data (JSON text) or NULL
    redirects,            \* table redirects:  id -> entry_id or NULL
    words,                \* table words:      rows in rowid order
    pronounciations,      \* table pronounciations: rows in rowid order
    media,                \* table media:      path -> [sha256, data] or NULL
    session_initialized,  \* DictionaryFetcher._session_initialized
    storage,              \* norecurse: keys held in the thread-local storage
    remote,               \* bytes the site currently serves per media path
    corrupted,            \* number of rows damaged so far (bounded)
    first,                \* id -> entry returned by the first successful
                          \*       get_entry(id) since the cache last held a
                          \*       corrupt row, or None
    last,                 \* the operation performed last, with its outcome
    host                  \* the plugin: its lock and its background workers

vars == <<site, entries, redirects, words, pronounciations, media,
          session_initialized, storage, remote, corrupted, first, last, host>>

---------------------------------------------------------------------------
(* Bounds of the model. *)

\* Nesting depth of get_entry at which the interpreter raises RecursionError
\* (Python's recursion limit, scaled down).
MaxDepth == 7
\* Rows of the entries table that the environment may damage in a behaviour.
MaxCorrupt == 1
\* A call's k-th network request may fail for k in 1..MaxFail (0: none fails).
MaxFail == 2
\* Fetches of one media path that one get_media_data call may need.
MaxFetch == 4

---------------------------------------------------------------------------
(* Values. *)

\* Python's None where the value is otherwise a record, a list or a text.
None == [none |-> TRUE]
\* Python's None / SQL NULL where the value is otherwise a definition id.
NULL == "NULL"

Ids == {1, 2, 3}
SELF_REFERENCE == [self |-> TRUE]
DEFAULT_DEFINITION == "#"
EntryRef(id, definition) == [id |-> id, definition |-> definition]
REPETITION_CHARACTER == EntryRef(132853, NULL)

\* The pronunciation schemes FETCHER_SETTINGS switches on, in page order.
Schemes == <<"t-i Enhanced", "Paiboon">>

\* A text is [toks |-> its space-separated tokens]; a token records its
\* letters, whether it holds upper-case letters and whether it is in a
\* decomposed (non-NFC) Unicode form.  A Python list is [list |-> elements].
Token(s, upper, decomposed) == [s |-> s, upper |-> upper, decomposed |-> decomposed]
Text(toks) == [toks |-> toks]
List(elems) == [list |-> elems]
NFC(str) == Text([i \in 1..Len(str.toks) |-> [str.toks[i] EXCEPT !.decomposed = FALSE]])
Lower(str) == Text([i \in 1..Len(str.toks) |-> [str.toks[i] EXCEPT !.upper = FALSE]])

RECURSIVE JoinToks(_)
JoinToks(parts) == IF parts = <<>> THEN <<>> ELSE Head(parts).toks \o JoinToks(Tail(parts))
\* " ".join(parts)
Join(parts) == Text(JoinToks(parts))

---------------------------------------------------------------------------
(* The web site.  alias[id] is the canonical id that the page served for   *)
(* id reports in its canonical link, or NotFound when the site answers     *)
(* 404.  comps[e] is the component list of the super-entry definition of   *)
(* the entry with canonical id e, or None when that entry has one plain    *)
(* definition only.  plain[e] is the list in the "components" field of    *)
(* the plain definition of entry e, or None when the page shows no such    *)
(* field.  Pages of one canonical id are the same page.                    *)

NotFound == 404

\* Entry 2's headword is served in a decomposed form and entry 3's holds
\* upper-case letters.
Headword(e) == Text(<<Token("word", e = 3, e = 2), Token(ToString(e), FALSE, FALSE)>>)
SuperHeadword(e) == Text(<<Token("super", FALSE, FALSE), Token(ToString(e), FALSE, FALSE)>>)
Romanized(e, scheme) ==
    Text(<<Token(scheme, scheme = "t-i Enhanced", FALSE), Token(ToString(e), FALSE, FALSE)>>)

\* alias maps: <<page 1, page 2, page 3>>.
AliasMaps ==
    { <<1, 2, 3>>,          \* every id canonical
      <<2, 2, 3>>,          \* 1 is an alias of 2
      <<1, 2, 1>>,          \* 3 is an alias of 1
      <<1, 2, NotFound>>,   \* 3 does not exist
      <<2, 2, NotFound>>,
      <<2, 1, 3>>,          \* 1 and 2 report each other
      <<2, 3, 3>> }         \* 1 reports 2, whose own page reports 3

\* component lists of the super-entry definitions: <<entry 1, entry 2, entry 3>>.
ComponentMaps ==
    { <<None, None, None>>,
      <<List(<<SELF_REFERENCE, EntryRef(2, NULL)>>), None, None>>,
      <<List(<<SELF_REFERENCE, EntryRef(2, NULL)>>), List(<<EntryRef(1, NULL)>>), None>>,
      <<List(<<SELF_REFERENCE, EntryRef(3, NULL)>>), None, None>>,
      <<List(<<REPETITION_CHARACTER, EntryRef(1, NULL), EntryRef(2, NULL)>>), None, None>>,
      <<None, List(<<EntryRef(1, NULL), EntryRef(3, NULL)>>), None>> }

\* The category paths a page lists for its definitions: <<entry 1, 2, 3>>.
NoCategories == <<<<>>, <<>>, <<>>>>
\* No plain definition has a "components" field.
NoComponents == <<None, None, None>>

\* Only an entry that some page serves has a component list.
Sites ==
    { s \in { [alias |-> a, comps |-> c, cats |-> NoCategories, plain |-> NoComponents] :
                a \in AliasMaps, c \in ComponentMaps } :
        \A e \in Ids : (\A id \in Ids : s.alias[id] # e) => s.comps[e] = None }

---------------------------------------------------------------------------
(* types.py: the entry model and its (de)serialisation. *)

\* EntryDefinition with its optional lists; classifiers, related and synonyms
\* default to None, categories (a list of category paths) to the empty list.
\* classes, is_common and image_url pass through (de)serialisation unchanged
\* and are left out.
EntryDefinition(id, super_entry, components) ==
    [id |-> id,
     definition |-> Text(<<Token("meaning", FALSE, FALSE), Token(id, FALSE, FALSE)>>),
     super_entry |-> super_entry, components |-> components,
     classifiers |-> None, related |-> None, synonyms |-> None,
     categories |-> <<>>]

DictionaryEntry(id, entry, prons, definitions) ==
    [id |-> id, entry |-> entry, pronounciations |-> prons, definitions |-> definitions]

\* dataclasses.asdict of one component: "self" stays, an EntryRef becomes a dict.
ComponentToDict(comp) ==
    IF comp = SELF_REFERENCE THEN [str |-> "self"]
    ELSE [dict |-> "EntryRef", id |-> comp.id, definition |-> comp.definition]

\* dataclasses.asdict of an optional list of components or references.
ListToDict(l) ==
    IF l = None THEN None ELSE List([i \in 1..Len(l.list) |-> ComponentToDict(l.list[i])])

DefinitionToDict(defn) ==
    [dict |-> "EntryDefinition", id |-> defn.id, definition |-> defn.definition,
     super_entry |-> defn.super_entry,
     components |-> ListToDict(defn.components),
     classifiers |-> ListToDict(defn.classifiers),
     related |-> ListToDict(defn.related),
     synonyms |-> ListToDict(defn.synonyms),
     categories |-> defn.categories]

\* DictionaryEntry.to_dict: asdict, then the definitions mapping as a list.
to_dict(entry) ==
    [dict |-> "DictionaryEntry", id |-> entry.id, entry |-> entry.entry,
     pronounciations |-> entry.pronounciations,
     definitions |-> [i \in 1..Len(entry.definitions) |-> DefinitionToDict(entry.definitions[i])]]

\* _parse_components: a falsy value (None or the empty list) becomes None.
_parse_components(raw) ==
    IF raw = None \/ raw.list = <<>> THEN None
    ELSE List([i \in 1..Len(raw.list) |->
                 IF raw.list[i] = [str |-> "self"] THEN SELF_REFERENCE
                 ELSE EntryRef(raw.list[i].id, raw.list[i].definition)])

\* _parse_related_entries: a falsy value becomes None.
_parse_related_entries(raw) ==
    IF raw = None \/ raw.list = <<>> THEN None
    ELSE List([i \in 1..Len(raw.list) |-> EntryRef(raw.list[i].id, raw.list[i].definition)])

EntryDefinition_from_dict(vals) ==
    [id |-> vals.id, definition |-> vals.definition, super_entry |-> vals.super_entry,
     components |-> _parse_components(vals.components),
     classifiers |-> _parse_related_entries(vals.classifiers),
     related |-> _parse_related_entries(vals.related),
     synonyms |-> _parse_related_entries(vals.synonyms),
     categories |-> vals.categories]

\* DictionaryEntry.from_dict
from_dict(vals) ==
    DictionaryEntry(vals.id, vals.entry, vals.pronounciations,
        [i \in 1..Len(vals.definitions) |-> EntryDefinition_from_dict(vals.definitions[i])])

\* json.dumps / json.loads: the text of a row; a damaged row holds text that
\* json.loads or from_dict rejects.
json_dumps(d) == [json |-> d]
json_loads(data) == data.json
Garbage == [json |-> [dict |-> "garbage"]]
Deserializes(data) == data.json.dict = "DictionaryEntry"

---------------------------------------------------------------------------
(* Call contexts, results and exceptions. *)

Ok(c, v) == [c |-> c, ok |-> TRUE, val |-> v]
Raise(c, e) == [c |-> c, ok |-> FALSE, val |-> e]
Exception(type, msg, cause) == [type |-> type, msg |-> msg, cause |-> cause]

\* The context a public operation starts in: the fetcher's state, no request
\* issued yet, fail the index of the request of this call that the network
\* fails (0: none), served the bytes the site serves at the call's
\* successive fetches of a media file, and sql the DELETE and INSERT
\* statements the call has executed on the media table.
Context(fail, served) ==
    [entries |-> entries, redirects |-> redirects, words |-> words,
     pronounciations |-> pronounciations, media |-> media,
     session_initialized |-> session_initialized, storage |-> storage,
     log |-> <<>>, sql |-> <<>>, fail |-> fail, served |-> served]

\* Does the request issued next in context c fail in the network?
NetworkFails(c) == Len(c.log) + 1 = c.fail
Sent(c, request) == [c EXCEPT !.log = Append(@, request)]
Executed(c, statement) == [c EXCEPT !.sql = Append(@, statement)]

---------------------------------------------------------------------------
(* The cache database (DictionaryFetcher.__init__ creates the schema).     *)
(* Statements run in autocommit mode, so each takes effect at once.        *)

\* sqlite3.connect without "PRAGMA foreign_keys = ON": SQLite leaves foreign
\* key enforcement off, so the ON DELETE CASCADE clauses have no effect.
ForeignKeys == FALSE

SelectRedirect(c, id) == { r \in c.redirects : r.id = id }
SelectEntry(c, id) == { r \in c.entries : r.id = id }
\* Fault: the lookup in entries never finds a row.
HasEntry_Never(c, id) == FALSE
HasEntry(c, id) == SelectEntry(c, id) # {}

\* DELETE FROM entries WHERE id = ?
DeleteEntry(c, id) ==
    IF ForeignKeys
    THEN [c EXCEPT !.entries = { r \in @ : r.id # id },
                   !.redirects = { r \in @ : r.entry_id # id },
                   !.words = SelectSeq(@, LAMBDA r : r.entry_id # id),
                   !.pronounciations = SelectSeq(@, LAMBDA r : r.entry_id # id)]
    ELSE [c EXCEPT !.entries = { r \in @ : r.id # id }]

\* A failed INSERT raises; every caller catches and logs it, so the table is
\* left as it was.
ForeignKeyHolds(c, entry_id) == ForeignKeys => HasEntry(c, entry_id)

\* Fault: the INSERT INTO entries is lost.
InsertEntry_Dropped(c, id, data) == c

\* INSERT INTO entries (id, data): id is the primary key.
InsertEntry(c, id, data) ==
    IF HasEntry(c, id) THEN c
    ELSE [c EXCEPT !.entries = @ \cup {[id |-> id, data |-> data]}]

\* Fault: the redirect row is written from the canonical id to the alias.
InsertRedirect_Swapped(c, id, entry_id) ==
    IF SelectRedirect(c, entry_id) # {} THEN c
    ELSE [c EXCEPT !.redirects = @ \cup {[id |-> entry_id, entry_id |-> id]}]

\* INSERT INTO redirects (id, entry_id): id is the primary key.
InsertRedirect(c, id, entry_id) ==
    IF SelectRedirect(c, id) # {} \/ ~ForeignKeyHolds(c, entry_id) THEN c
    ELSE [c EXCEPT !.redirects = @ \cup {[id |-> id, entry_id |-> entry_id]}]

\* UNIQUE (entry_id, definition_id): SQLite treats NULLs as distinct, so the
\* constraint never rejects a row whose definition_id is NULL.
WordConflicts(c, entry_id, definition_id) ==
    /\ definition_id # NULL
    /\ \E i \in 1..Len(c.words) :
          c.words[i].entry_id = entry_id /\ c.words[i].definition_id = definition_id

\* INSERT INTO words (word, entry_id, definition_id)
InsertWord(c, word, entry_id, definition_id) ==
    IF WordConflicts(c, entry_id, definition_id) \/ ~ForeignKeyHolds(c, entry_id) THEN c
    ELSE [c EXCEPT !.words = Append(@,
            [word |-> word, entry_id |-> entry_id, definition_id |-> definition_id])]

\* UNIQUE (entry_id, definition_id, type), NULLs distinct as above.
PronounciationConflicts(c, type, entry_id, definition_id) ==
    /\ definition_id # NULL
    /\ \E i \in 1..Len(c.pronounciations) :
          /\ c.pronounciations[i].entry_id = entry_id
          /\ c.pronounciations[i].definition_id = definition_id
          /\ c.pronounciations[i].type = type

\* INSERT INTO pronounciations (pronounciation, type, entry_id, definition_id)
InsertPronounciation(c, pronounciation, type, entry_id, definition_id) ==
    IF PronounciationConflicts(c, type, entry_id, definition_id)
       \/ ~ForeignKeyHolds(c, entry_id) THEN c
    ELSE [c EXCEPT !.pronounciations = Append(@,
            [pronounciation |-> pronounciation, type |-> type,
             entry_id |-> entry_id, definition_id |-> definition_id])]

---------------------------------------------------------------------------
(* DictionaryFetcher: session, page fetch, cache population. *)

\* Fault: the handshake is sent but the session is never marked initialised.
_ensure_initialized_Forgets(c) ==
    IF NetworkFails(c)
    THEN Raise(Sent(c, [request |-> "POST settings", status |-> 500]),
               Exception("HTTPError", "settings handshake failed", ""))
    ELSE Ok(Sent(c, [request |-> "POST settings", status |-> 200]), None)

\* _ensure_initialized: the settings handshake, once.
_ensure_initialized(c) ==
    IF c.session_initialized THEN Ok(c, None)
    ELSE IF NetworkFails(c)
         THEN Raise(Sent(c, [request |-> "POST settings", status |-> 500]),
                    Exception("HTTPError", "settings handshake failed", ""))
         ELSE Ok([Sent(c, [request |-> "POST settings", status |-> 200])
                    EXCEPT !.session_initialized = TRUE], None)

\* The parser's result for the page of canonical entry e (_parse_entry_header,
\* _parse_entry_pronounciations, _parse_entry_definitions).
\* _parse_categories_field: the category paths of a definition's rows.
Categorised(defn, cats) == [defn EXCEPT !.categories = cats]

ParsePage(e) ==
    DictionaryEntry(e, Headword(e),
        [n \in { Schemes[i] : i \in 1..Len(Schemes) } |-> Romanized(e, n)],
        IF site.comps[e] = None
        THEN <<Categorised(EntryDefinition(DEFAULT_DEFINITION, None, site.plain[e]),
                           site.cats[e])>>
        ELSE <<Categorised(EntryDefinition("1", None, site.plain[e]), site.cats[e]),
               Categorised(EntryDefinition("2", SuperHeadword(e), site.comps[e]),
                           site.cats[e])>>)

\* The except clause of _get_entry: every exception raised in its try block,
\* EntryNotFound included, leaves as a RuntimeError that carries it as cause.
GetEntryExcept(cause) == Exception("RuntimeError", "Failed to get dictionary entry", cause)

\* _get_entry: handshake if needed, GET /id/<id>, parse.
_get_entry(c, id) ==
    LET init == _ensure_initialized(c)
        status == IF NetworkFails(init.c) THEN 500
                  ELSE IF site.alias[id] = NotFound THEN 404 ELSE 200
        c1 == Sent(init.c, [request |-> "GET entry", id |-> id, status |-> status])
    IN  IF ~init.ok THEN init
        ELSE IF status = 404 THEN Raise(c1, GetEntryExcept("EntryNotFound"))
        ELSE IF status # 200 THEN Raise(c1, GetEntryExcept("HTTPError"))
        ELSE Ok(c1, ParsePage(site.alias[id]))

RECURSIVE CachePronounciations(_, _, _, _)
\* The first loop of _cache_entry, from the i-th scheme on.
CachePronounciations(c, ref, entry, i) ==
    IF i > Len(Schemes) THEN c
    ELSE CachePronounciations(
             InsertPronounciation(c, NFC(entry.pronounciations[Schemes[i]]), Schemes[i],
                                  ref.id, ref.definition),
             ref, entry, i + 1)

\* _cache_entry: index rows for the entry's pronunciations and headword.
_cache_entry(c, ref, entry) ==
    InsertWord(CachePronounciations(c, ref, entry, 1), NFC(entry.entry), ref.id, ref.definition)

---------------------------------------------------------------------------
(* get_entry and the super-entry resolution it drives.  depth is the       *)
(* number of nested get_entry frames the interpreter still allows.         *)

RECURSIVE get_entry(_, _, _)
RECURSIVE PronounciationParts(_, _, _, _, _, _, _)
RECURSIVE SuperPronounciations(_, _, _, _, _, _)
RECURSIVE ResolveSuperEntries(_, _, _, _)

\* _get_super_entry_pronounciations, from the i-th component on.
PronounciationParts(c, name, self_pronounciation, components, i, parts, depth) ==
    IF i > Len(components) THEN Ok(c, Join(parts))
    ELSE IF components[i] = SELF_REFERENCE \/ components[i] = REPETITION_CHARACTER
    THEN PronounciationParts(c, name, self_pronounciation, components, i + 1,
                             Append(parts, self_pronounciation), depth)
    ELSE LET Part(comp_entry) ==
                 IF ~comp_entry.ok THEN comp_entry
                 ELSE PronounciationParts(comp_entry.c, name, self_pronounciation,
                          components, i + 1,
                          Append(parts, comp_entry.val.pronounciations[name]), depth)
         IN  Part(get_entry(c, components[i].id, depth - 1))

_get_super_entry_pronounciations(c, name, self_pronounciation, components, depth) ==
    PronounciationParts(c, name, self_pronounciation, components, 1, <<>>, depth)

\* The dict comprehension of get_super_entry, from the i-th scheme on; values
\* holds the pronunciations built so far.
SuperPronounciations(c, entry, components, i, values, depth) ==
    IF i > Len(Schemes)
    THEN Ok(c, [n \in { Schemes[j] : j \in 1..Len(Schemes) } |->
                  values[CHOOSE j \in 1..Len(Schemes) : Schemes[j] = n]])
    ELSE LET Value(p) ==
                 IF ~p.ok THEN p
                 ELSE SuperPronounciations(p.c, entry, components, i + 1,
                                           Append(values, p.val), depth)
         IN  Value(_get_super_entry_pronounciations(c, Schemes[i],
                       entry.pronounciations[Schemes[i]], components, depth))

DefinitionIds(entry) == { entry.definitions[i].id : i \in 1..Len(entry.definitions) }
DefinitionOf(entry, defn_id) ==
    entry.definitions[CHOOSE i \in 1..Len(entry.definitions) : entry.definitions[i].id = defn_id]

\* Fault: the markers are left in the component list of the derived entry.
RewriteComponents_Kept(entry, components) == components

\* The component list of the derived entry: markers become the owning entry.
RewriteComponents(entry, components) ==
    [i \in 1..Len(components) |->
        IF components[i] = SELF_REFERENCE \/ components[i] = REPETITION_CHARACTER
        THEN EntryRef(entry.id, NULL) ELSE components[i]]

get_super_entry(c, entry, defn_id, depth) ==
    IF defn_id \notin DefinitionIds(entry)
    THEN Raise(c, Exception("EntryNotFound", "", ""))
    ELSE LET defn == DefinitionOf(entry, defn_id)
             new_defn == [defn EXCEPT !.super_entry = None,
                            !.components = List(RewriteComponents(entry, defn.components.list))]
             Derived(prons) ==
                 IF ~prons.ok THEN prons
                 ELSE Ok(prons.c,
                         DictionaryEntry(entry.id, defn.super_entry, prons.val, <<new_defn>>))
         IN  IF defn.super_entry = None \/ defn.components = None
             THEN Raise(c, Exception("AssertionError", "", ""))
             ELSE Derived(SuperPronounciations(c, entry, defn.components.list, 1, <<>>, depth))

\* norecurse: the key is dropped only when the wrapped call returns.
NorecurseRelease(keys, key) == keys \ {key}

\* _norecurse_get_super_entry: get_super_entry under the guard keyed by
\* (entry.id, defn_id).
_norecurse_get_super_entry(c, entry, defn_id, depth) ==
    LET key == <<entry.id, defn_id>>
    IN  IF key \in c.storage
        THEN Raise(c, Exception("RuntimeError", "Unexpected recursion", ""))
        ELSE LET Returned(result) ==
                     IF ~result.ok THEN result
                     ELSE Ok([result.c EXCEPT !.storage = NorecurseRelease(@, key)],
                             result.val)
             IN  Returned(get_super_entry([c EXCEPT !.storage = @ \cup {key}],
                                          entry, defn_id, depth))

\* The loop of get_entry over entry.definitions, from the i-th on.
ResolveSuperEntries(c, entry, i, depth) ==
    IF i > Len(entry.definitions) THEN Ok(c, None)
    ELSE IF entry.definitions[i].super_entry = None
    THEN ResolveSuperEntries(c, entry, i + 1, depth)
    ELSE LET defn_id == entry.definitions[i].id
             Cached(super_entry) ==
                 IF ~super_entry.ok THEN super_entry
                 ELSE ResolveSuperEntries(
                          _cache_entry(super_entry.c, EntryRef(entry.id, defn_id),
                                       super_entry.val),
                          entry, i + 1, depth)
         IN  Cached(_norecurse_get_super_entry(c, entry, defn_id, depth))

\* The "if not skip_adding" block of get_entry.
AddEntry(c, entry, depth) ==
    ResolveSuperEntries(
        _cache_entry(InsertEntry(c, entry.id, json_dumps(to_dict(entry))),
                     EntryRef(entry.id, NULL), entry),
        entry, 1, depth)

\* get_entry after its two cache lookups missed: fetch, store, redirect.
FetchAndStore(c, id, depth) ==
    LET Redirected(entry, added) ==
            IF ~added.ok THEN added
            ELSE IF entry.id # id THEN Ok(InsertRedirect(added.c, id, entry.id), entry)
            ELSE Ok(added.c, entry)
        Stored(fetched) ==
            LET entry == fetched.val
                skip_adding == entry.id # id /\ HasEntry(fetched.c, entry.id)
            IN  IF ~fetched.ok THEN fetched
                ELSE Redirected(entry, IF skip_adding THEN Ok(fetched.c, None)
                                       ELSE AddEntry(fetched.c, entry, depth))
    IN  Stored(_get_entry(c, id))

get_entry(c, id, depth) ==
    IF depth <= 0
    THEN Raise(c, Exception("RecursionError", "maximum recursion depth exceeded", ""))
    ELSE IF SelectRedirect(c, id) # {}
    THEN get_entry(c, (CHOOSE r \in SelectRedirect(c, id) : TRUE).entry_id, depth - 1)
    ELSE IF HasEntry(c, id)
    THEN LET raw_entry == (CHOOSE r \in SelectEntry(c, id) : TRUE).data
         IN  IF Deserializes(raw_entry) THEN Ok(c, from_dict(raw_entry.json))
             ELSE FetchAndStore(DeleteEntry(c, id), id, depth)
    ELSE FetchAndStore(c, id, depth)

\* The cached branch of lookup_word: the references of the rows of the word
\* index that hold word, in rowid order.
local_ret(c, word) ==
    LET rows == SelectSeq(c.words, LAMBDA r : r.word = word)
    IN  [i \in 1..Len(rows) |-> EntryRef(rows[i].entry_id, rows[i].definition_id)]

---------------------------------------------------------------------------
(* Reference parsing.  A string is the sequence of its pieces: a piece is   *)
(* a literal part of an entry URL, a decimal digit, a sign, a blank, "#",   *)
(* "?", or other text that holds none of these.                             *)

Digits == {"0", "1", "2", "3"}
DigitValue(d) == CHOOSE n \in 0..3 : ToString(n) = d

RECURSIVE Concat(_)
\* The text of a string.
Concat(str) == IF str = <<>> THEN "" ELSE Head(str) \o Concat(Tail(str))

RECURSIVE ToInt(_, _)
\* The number written by a run of digits, most significant first.
ToInt(str, acc) ==
    IF str = <<>> THEN acc ELSE ToInt(Tail(str), 10 * acc + DigitValue(Head(str)))

RECURSIVE DigitRun(_, _)
\* The length of the longest run of digits in str from position i on.
DigitRun(str, i) ==
    IF i <= Len(str) /\ str[i] \in Digits THEN 1 + DigitRun(str, i + 1) ELSE 0

\* Where (?:(?:https?://)?(?:www\.)?thai-language\.com)? may end when matched
\* at the start of str: after nothing, or after the host with its optional
\* scheme and "www.".
HostEnds(str) ==
    LET a == IF Len(str) >= 1 /\ str[1] \in {"http://", "https://"} THEN 1 ELSE 0
        b == IF Len(str) > a /\ str[a + 1] = "www." THEN a + 1 ELSE a
    IN  IF Len(str) > b /\ str[b + 1] = "thai-language.com" THEN {0, b + 1} ELSE {0}

\* Where the first optional group of _ENTRY_URL_REGEX, [host]/id/<digits>,
\* may end: [end, digits matched]; end = 0 when the group matches nothing.
IdEnds(str) ==
    {[end |-> 0, digits |-> 0]} \cup
    UNION { { [end |-> h + 1 + n, digits |-> n] : n \in 1..DigitRun(str, h + 2) } :
              h \in { x \in HostEnds(str) : x < Len(str) /\ str[x + 1] = "/id/" } }

\* Fault: the definition group is [^?]*, without the leading digits.
DefMatches_AnyDefinition(str, i) ==
    \/ i = Len(str) + 1
    \/ /\ i <= Len(str) /\ str[i] = "#def"
       /\ \A k \in (i + 1)..Len(str) : str[k] # "?"

\* Does (?:#def(?P<def>[0-9]+[^?]*))? match str from position i to its end?
DefMatches(str, i) ==
    \/ i = Len(str) + 1
    \/ /\ i <= Len(str) /\ str[i] = "#def"
       /\ DigitRun(str, i + 1) >= 1
       /\ \A k \in (i + 1)..Len(str) : str[k] # "?"

\* _ENTRY_URL_REGEX.fullmatch(url): the ways the whole of url matches.
FullMatches(url) == { m \in IdEnds(url) : DefMatches(url, m.end + 1) }

\* parse_entry_url; self_id is None or [id |-> n].
parse_entry_url(url, self_id) ==
    IF FullMatches(url) = {} THEN None
    ELSE LET m == CHOOSE x \in FullMatches(url) : TRUE
             definition == IF m.end = Len(url) THEN NULL
                           ELSE Concat(SubSeq(url, m.end + 2, Len(url)))
         IN  IF m.end = 0
             THEN IF self_id = None THEN None ELSE EntryRef(self_id.id, definition)
             ELSE EntryRef(ToInt(SubSeq(url, m.end - m.digits + 1, m.end), 0), definition)

RECURSIVE Strip(_)
\* str.strip(), which int() applies to its argument.
Strip(str) ==
    IF str # <<>> /\ Head(str) = " " THEN Strip(Tail(str))
    ELSE IF str # <<>> /\ str[Len(str)] = " " THEN Strip(SubSeq(str, 1, Len(str) - 1))
    ELSE str

\* int(text): blanks around, an optional sign, then digits only; a record
\* [int |-> n], or None where int() raises ValueError.
int(str) ==
    LET t == Strip(str)
        signed == t # <<>> /\ Head(t) \in {"-", "+"}
        d == IF signed THEN Tail(t) ELSE t
    IN  IF d = <<>> \/ DigitRun(d, 1) # Len(d) THEN None
        ELSE [int |-> IF signed /\ Head(t) = "-" THEN 0 - ToInt(d, 0) ELSE ToInt(d, 0)]

\* The position of the first piece of str that holds a "#", or 0.
FirstHash(str) ==
    IF \E i \in 1..Len(str) : str[i] \in {"#", "#def"}
    THEN CHOOSE i \in 1..Len(str) :
            str[i] \in {"#", "#def"} /\ \A j \in 1..(i - 1) : str[j] \notin {"#", "#def"}
    ELSE 0

\* parse_ref (refs.py): split at the first "#", int() of the first part.
parse_ref(raw_ref) ==
    LET h == FirstHash(raw_ref)
        first_part == IF h = 0 THEN raw_ref ELSE SubSeq(raw_ref, 1, h - 1)
        rest == Concat(SubSeq(raw_ref, h + 1, Len(raw_ref)))
        defn == IF h = 0 THEN NULL
                ELSE IF raw_ref[h] = "#def" THEN "def" \o rest ELSE rest
    IN  IF int(first_part) = None THEN None
        ELSE EntryRef(int(first_part).int, defn)

---------------------------------------------------------------------------
(* The lookups. *)

\* unicodedata.normalize("NFC", text.lower()): the key a lookup searches for.
QueryKey(text) == NFC(Lower(text))

\* lookup_pronounciation: the entry ids of the rows of the pronunciation
\* index that hold the normalised text, in rowid order.
lookup_pronounciation(c, pronounciation) ==
    LET rows == SelectSeq(c.pronounciations,
                          LAMBDA r : r.pronounciation = QueryKey(pronounciation))
    IN  Ok(c, List([i \in 1..Len(rows) |-> rows[i].entry_id]))

\* Fault: the server is asked even when the word index has a match.
CachedMatch_Ignored(c, word, force_serverside) == <<>>

\* The cached result that lookup_word returns at once: local_ret unless the
\* server is forced (<<>> stands for going on to the server).
CachedMatch(c, word, force_serverside) ==
    IF force_serverside THEN <<>> ELSE local_ret(c, QueryKey(word))

\* lookup_word; response is the server's answer to the search POST, should
\* the call send it: [status |-> 200] or [status |-> 302, location |-> url].
lookup_word(c, word, force_serverside, response, depth) ==
    LET cached == CachedMatch(c, word, force_serverside)
        failed == NetworkFails(c)
        c1 == Sent(c, [request |-> "POST search",
                       status |-> IF failed THEN 500 ELSE response.status])
        ref == parse_entry_url(response.location, None)
        entry == get_entry(c1, ref.id, depth)
    IN  IF Len(cached) > 0 THEN Ok(c, List(cached))
        ELSE IF failed THEN Raise(c1, Exception("HTTPError", "search failed", ""))
        ELSE IF response.status # 302 THEN Ok(c1, List(<<>>))
        ELSE IF ref = None
        THEN Raise(c1, Exception("RuntimeError", "Unexpected missing Location", ""))
        ELSE IF ~entry.ok THEN entry
        ELSE Ok(entry.c, List(<<EntryRef(entry.val.id, ref.definition)>>))

---------------------------------------------------------------------------
(* Media files. *)

\* Fault: every content hashes to the same digest.
Sha256_Constant(content) == [sha256 |-> "0"]

\* hashlib.sha256(content).hexdigest(): distinct contents, distinct digests.
Sha256(content) == [sha256 |-> content]

SelectMedia(c, path) == { r \in c.media : r.path = path }
\* DELETE FROM media WHERE path = ?
DeleteMedia(c, path) ==
    Executed([c EXCEPT !.media = { r \in @ : r.path # path }], "DELETE FROM media")
\* INSERT INTO media (path, sha256, data): path is the primary key.
InsertMedia(c, path, sha256, data) ==
    IF SelectMedia(c, path) # {} THEN Executed(c, "INSERT INTO media")
    ELSE Executed([c EXCEPT !.media = @ \cup {[path |-> path, sha256 |-> sha256, data |-> data]}],
                  "INSERT INTO media")

MediaFetches(log) == Len(SelectSeq(log, LAMBDA r : r.request = "GET media"))

\* _get_media_data: handshake if needed, GET the file, hash it.  The value
\* is <<digest, content>>; "pending" stands for a fetch beyond the responses
\* the environment supplied to this call.
_get_media_data(c, path) ==
    LET init == _ensure_initialized(c)
        k == MediaFetches(init.c.log) + 1
        failed == NetworkFails(init.c)
        c1 == Sent(init.c, [request |-> "GET media", path |-> path,
                            status |-> IF failed THEN 500 ELSE 200])
    IN  IF ~init.ok THEN init
        ELSE IF k > Len(c.served) THEN Raise(init.c, Exception("pending", "", ""))
        ELSE IF failed
        THEN Raise(c1, Exception("RuntimeError", "Failed to get media file", "HTTPError"))
        ELSE Ok(c1, [sha256 |-> Sha256(c.served[k]), data |-> c.served[k]])

\* Fault: no fetch ever verifies the bytes held.
Verified_Never(sha256, new_sha256) == FALSE

\* verified = sha256 == new_sha256
Verified(sha256, new_sha256) == sha256 = new_sha256

RECURSIVE VerifyLoop(_, _, _, _, _, _)
\* The while loop of get_media_data, entered with the given locals.
VerifyLoop(c, path, sha256, data, insert_new, verified) ==
    IF verified THEN Ok(c, [sha256 |-> sha256, data |-> data, insert_new |-> insert_new])
    ELSE LET new == _get_media_data(c, path)
         IN  IF ~new.ok THEN new
             ELSE VerifyLoop(new.c, path, new.val.sha256, new.val.data,
                             insert_new \/ ~Verified(sha256, new.val.sha256),
                             Verified(sha256, new.val.sha256))

\* Fault: the row is rewritten whether or not insert_new is set.
StoreMedia_Always(c, path, has_existing, loc) ==
    Ok(InsertMedia(IF has_existing THEN DeleteMedia(c, path) ELSE c,
                   path, loc.sha256, loc.data), loc.data)

\* The statements of get_media_data after the loop.
StoreMedia(c, path, has_existing, loc) ==
    IF loc.insert_new
    THEN Ok(InsertMedia(IF has_existing THEN DeleteMedia(c, path) ELSE c,
                        path, loc.sha256, loc.data), loc.data)
    ELSE Ok(c, loc.data)

get_media_data(c, path, verify) ==
    LET existing == SelectMedia(c, path)
        has_existing == existing # {}
        row == CHOOSE r \in existing : TRUE
        fetched == IF has_existing THEN Ok(c, [sha256 |-> row.sha256, data |-> row.data])
                   ELSE _get_media_data(c, path)
        loop == VerifyLoop(fetched.c, path, fetched.val.sha256, fetched.val.data,
                           ~has_existing, ~verify)
    IN  IF ~fetched.ok THEN fetched
        ELSE IF ~loop.ok THEN loop
        ELSE StoreMedia(loop.c, path, has_existing, loop.val)

---------------------------------------------------------------------------
(* The fetcher as a state machine. *)

Paths == {"/mp3/a.mp3", "/mp3/b.mp3"}
\* The fetcher used on its own, without the plugin.
NoHost == [lock |-> 0]
Bytes == {"bytes-1", "bytes-2"}

Init ==
    /\ site \in Sites
    /\ entries = {}
    /\ redirects = {}
    /\ words = <<>>
    /\ pronounciations = <<>>
    /\ media = {}
    /\ session_initialized = FALSE
    /\ storage = {}
    /\ remote = [p \in Paths |-> "bytes-1"]
    /\ corrupted = 0
    /\ first = [id \in Ids |-> None]
    /\ last = [op |-> "init"]
    /\ host = NoHost

\* The fetcher's state after an operation that ended in context c.
Commit(c) ==
    /\ entries' = c.entries
    /\ redirects' = c.redirects
    /\ words' = c.words
    /\ pronounciations' = c.pronounciations
    /\ media' = c.media
    /\ session_initialized' = c.session_initialized
    /\ storage' = c.storage

\* No entries row holds text that fails to deserialise.
NoCorruptRow == \A r \in entries : Deserializes(r.data)

\* A caller invokes get_entry(id); the network fails the call's fail-th
\* request, if it issues that many.  first[id] remembers the value of the
\* first success on id in a cache that has held no corrupt row since.
GetEntry(id, fail) ==
    \E r \in {get_entry(Context(fail, <<>>), id, MaxDepth)} :
        /\ Commit(r.c)
        /\ first' = IF r.ok /\ first[id] = None /\ NoCorruptRow
                     THEN [first EXCEPT ![id] = r.val] ELSE first
        /\ last' = [op |-> "get_entry", id |-> id, ok |-> r.ok, val |-> r.val, log |-> r.c.log]
        /\ UNCHANGED <<host, site, remote, corrupted>>

\* The environment damages the stored text of one entries row, so that it no
\* longer deserialises.
Corrupt(id) ==
    /\ corrupted < MaxCorrupt
    /\ \E r \in entries : r.id = id /\ Deserializes(r.data)
    /\ entries' = { IF r.id = id THEN [r EXCEPT !.data = Garbage] ELSE r : r \in entries }
    /\ corrupted' = corrupted + 1
    /\ first' = [i \in Ids |-> None]
    /\ last' = [op |-> "corrupt", id |-> id]
    /\ UNCHANGED <<host, site, redirects, words, pronounciations, media,
                   session_initialized, storage, remote>>

Next ==
    \/ \E id \in Ids, fail \in 0..MaxFail : GetEntry(id, fail)
    \/ \E id \in Ids : Corrupt(id)

Spec == Init /\ [][Next]_vars

---------------------------------------------------------------------------
(* The media operations as a state machine of their own: they share only   *)
(* the session handshake with the entry operations.                        *)

\* The responses a call may meet: the file as it is now at the first fetch,
\* and whatever the site has changed it to at each later one.
Responses(path) ==
    {<<>>} \cup { s \in UNION { [1..n -> Bytes] : n \in 1..MaxFetch } : s[1] = remote[path] }

\* A caller invokes get_media_data(path, verify) and the call consumes exactly
\* the responses in served.
GetMediaData(path, verify, served, fail) ==
    \E r \in {get_media_data(Context(fail, served), path, verify)} :
        /\ IF r.ok THEN TRUE ELSE r.val.type # "pending"
        /\ MediaFetches(r.c.log) = Len(served)
        /\ Commit(r.c)
        /\ remote' = IF served = <<>> THEN remote
                     ELSE [remote EXCEPT ![path] = served[Len(served)]]
        /\ last' = [op |-> "get_media_data", path |-> path, verify |-> verify,
                    ok |-> r.ok, val |-> r.val, log |-> r.c.log, sql |-> r.c.sql,
                    served |-> served,
                    before |-> SelectMedia(Context(0, <<>>), path)]
        /\ UNCHANGED <<host, site, corrupted, first>>

\* The site replaces a media file.
ChangeRemote(path, content) ==
    /\ remote[path] # content
    /\ remote' = [remote EXCEPT ![path] = content]
    /\ last' = [op |-> "change_remote", path |-> path]
    /\ UNCHANGED <<host, site, entries, redirects, words, pronounciations, media,
                   session_initialized, storage, corrupted, first>>

MediaInit == Init /\ site = [alias |-> <<1, 2, 3>>, comps |-> <<None, None, None>>, cats |-> NoCategories,
               plain |-> NoComponents]

MediaNext ==
    \/ \E path \in Paths, verify \in BOOLEAN, fail \in 0..MaxFail :
          \E served \in Responses(path) : GetMediaData(path, verify, served, fail)
    \/ \E path \in Paths, content \in Bytes : ChangeRemote(path, content)

MediaSpec == MediaInit /\ [][MediaNext]_vars

---------------------------------------------------------------------------
(* The lookups as a state machine, next to get_entry, which fills the      *)
(* indexes they read.                                                      *)

\* A text in upper case, and in a decomposed Unicode form.
Upper(str) == Text([i \in 1..Len(str.toks) |-> [str.toks[i] EXCEPT !.upper = TRUE]])
Decomposed(str) ==
    Text([i \in 1..Len(str.toks) |-> [str.toks[i] EXCEPT !.decomposed = TRUE]])
\* Texts that equal str up to letter case and Unicode normalisation.
Variants(str) == { str, Upper(str), Lower(str), Decomposed(str), NFC(str) }

QueryWords == UNION { Variants(Headword(e)) : e \in Ids }
QueryPronounciations ==
    UNION { Variants(Romanized(e, Schemes[i])) : e \in Ids, i \in 1..Len(Schemes) }

\* Answers of the server to a search: no redirect, or a redirect to an entry
\* URL, to a definition of an entry, or to a location that names no entry.
SearchResponses ==
    {[status |-> 200]} \cup
    { [status |-> 302, location |-> l] :
        l \in { <<"/id/", "3">>, <<"/id/", "1", "#def", "2">>, <<"#def", "1">> } }

\* Sites of the lookups: three plain entries; page 3 an alias of entry 1,
\* which has a super-entry built from itself and entry 2; page 3 missing.
LookupSites ==
    { s \in Sites :
        \/ s.alias \in { <<1, 2, 3>>, <<1, 2, NotFound>> } /\ s.comps = <<None, None, None>>
        \/ /\ s.alias = <<1, 2, 1>>
           /\ s.comps = <<List(<<SELF_REFERENCE, EntryRef(2, NULL)>>), None, None>> }

LookupInit == Init /\ site \in LookupSites

\* Was the search POST sent and answered in the requests of log?
SearchAnswered(log) ==
    \E i \in 1..Len(log) : log[i].request = "POST search" /\ log[i].status # 500

\* A caller invokes lookup_word(word, force_serverside); the server answers
\* the search, if it gets one, with response, and the network fails the
\* call's fail-th request.  The search's answer is independent of the word,
\* so a forced lookup is drawn with one word; a response the call cannot
\* receive, or a failure it cannot meet, is drawn in one way only.
LookupWord(word, force_serverside, response, fail) ==
    /\ force_serverside => word = Headword(1)
    /\ fail = 1 => response = [status |-> 200]
    /\ response.status # 302 => fail <= 1
    /\ \E r \in {lookup_word(Context(fail, <<>>), word, force_serverside, response, MaxDepth)} :
        /\ SearchAnswered(r.c.log) \/ response = [status |-> 200]
        /\ Commit(r.c)
        /\ last' = [op |-> "lookup_word", word |-> word, force |-> force_serverside,
                    response |-> response, ok |-> r.ok, val |-> r.val, log |-> r.c.log]
        /\ UNCHANGED <<host, site, remote, corrupted, first>>

\* A caller invokes lookup_pronounciation(text).
LookupPronounciation(text) ==
    \E r \in {lookup_pronounciation(Context(0, <<>>), text)} :
        /\ Commit(r.c)
        /\ last' = [op |-> "lookup_pronounciation", text |-> text,
                    ok |-> r.ok, val |-> r.val, log |-> r.c.log]
        /\ UNCHANGED <<host, site, remote, corrupted, first>>

LookupNext ==
    \/ \E id \in Ids, fail \in 0..MaxFail : GetEntry(id, fail)
    \/ \E word \in QueryWords, force_serverside \in BOOLEAN,
          response \in SearchResponses, fail \in 0..MaxFail :
          LookupWord(word, force_serverside, response, fail)
    \/ \E text \in QueryPronounciations : LookupPronounciation(text)

LookupSpec == LookupInit /\ [][LookupNext]_vars

---------------------------------------------------------------------------
(* get_super_entry as an operation of its own, on an entry that get_entry  *)
(* has just returned to the caller.                                        *)

\* Pages 1 and 2 always exist; page 3 exists, is an alias of entry 1, or is
\* missing.
SuperSites == { s \in Sites : s.alias \in { <<1, 2, 3>>, <<1, 2, 1>>, <<1, 2, NotFound>> } }

\* Definition ids a caller asks for: the ids the parser gives, and one that
\* no entry has.
SuperDefinitionIds == { DEFAULT_DEFINITION, "1", "2", "9" }

SuperInit == Init /\ site \in SuperSites

\* A caller invokes get_super_entry(entry, defn_id) with the entry its last
\* get_entry call returned.
GetSuperEntry(defn_id, fail) ==
    /\ last.op = "get_entry" /\ last.ok
    /\ \E r \in {get_super_entry(Context(fail, <<>>), last.val, defn_id, MaxDepth)} :
        /\ Commit(r.c)
        /\ last' = [op |-> "get_super_entry", entry |-> last.val, defn_id |-> defn_id,
                    ok |-> r.ok, val |-> r.val, log |-> r.c.log]
        /\ UNCHANGED <<host, site, remote, corrupted, first>>

SuperNext ==
    \/ \E id \in Ids, fail \in 0..MaxFail : GetEntry(id, fail)
    \/ \E defn_id \in SuperDefinitionIds, fail \in 0..MaxFail : GetSuperEntry(defn_id, fail)

SuperSpec == SuperInit /\ [][SuperNext]_vars

---------------------------------------------------------------------------
(* All operations of one fetcher that can reach the network, on one site:  *)
(* page 3 is an alias of entry 1.                                          *)

SessionSites == { s \in Sites : s.alias = <<1, 2, 1>> /\ s.comps = <<None, None, None>> }

SessionInit == Init /\ site \in SessionSites

SessionNext ==
    \/ \E id \in Ids, fail \in 0..MaxFail : GetEntry(id, fail)
    \/ \E word \in Variants(Headword(1)), force_serverside \in BOOLEAN,
          response \in SearchResponses, fail \in 0..MaxFail :
          LookupWord(word, force_serverside, response, fail)
    \/ \E text \in Variants(Romanized(1, Schemes[1])) : LookupPronounciation(text)
    \/ \E path \in Paths, verify \in BOOLEAN, fail \in 0..MaxFail :
          \E served \in { <<>>, <<remote[path]>> } : GetMediaData(path, verify, served, fail)

SessionSpec == SessionInit /\ [][SessionNext]_vars

---------------------------------------------------------------------------
(* Reference parsing as a state machine: the parsers applied to strings    *)
(* put together from a part before the id, an id part and a definition     *)
(* part.                                                                    *)

Host == <<"thai-language.com">>
\* Scheme and host as an entry URL may carry them.
HostParts == { Host, <<"http://">> \o Host, <<"https://">> \o Host,
               <<"www.">> \o Host, <<"https://", "www.">> \o Host }
PrefixParts == HostParts \cup { <<>>, <<"http://">>, <<"www.">>, <<"abc">> }
\* Integer literals and the numbers they write.
NumberValue ==
    (<<"1">> :> 1) @@ (<<"1", "2", "3">> :> 123) @@ (<<"0", "3">> :> 3) @@
    (<<"-", "2">> :> (0 - 2)) @@ (<<" ", "2", " ">> :> 2)
\* Literals of decimal digits only.
DigitParts == { <<"1">>, <<"1", "2", "3">>, <<"0", "3">> }
IdParts ==
    DOMAIN NumberValue \cup { <<"/id/">> \o d : d \in DigitParts }
      \cup { <<>>, <<"/id/">>, <<"abc">>, <<"1", "abc">>, <<"/id/", "abc">> }
DefParts ==
    { <<>>, <<"#def", "1">>, <<"#def", "2", "abc">>, <<"#def", "abc">>, <<"#def">>,
      <<"#", "abc">>, <<"#", "1">>, <<"#">>, <<"#def", "1", "?">>, <<"?">>,
      <<"#def", "1", "#def", "2">> }
RefInputs == [prefix : PrefixParts, id : IdParts, def : DefParts]
StringOf(input) == input.prefix \o input.id \o input.def

\* The string to parse is chosen at the start.
RefInit ==
    /\ site = [alias |-> <<1, 2, 3>>, comps |-> <<None, None, None>>, cats |-> NoCategories,
               plain |-> NoComponents]
    /\ entries = {} /\ redirects = {} /\ media = {}
    /\ words = <<>> /\ pronounciations = <<>>
    /\ session_initialized = FALSE /\ storage = {}
    /\ remote = [p \in Paths |-> "bytes-1"]
    /\ corrupted = 0
    /\ first = [id \in Ids |-> None]
    /\ last \in { [op |-> "input", input |-> input] : input \in RefInputs }
    /\ host = NoHost

ParseRef(input) ==
    /\ last = [op |-> "input", input |-> input]
    /\ last' = [op |-> "parse_ref", input |-> input, val |-> parse_ref(StringOf(input))]
    /\ UNCHANGED <<host, site, entries, redirects, words, pronounciations, media,
                   session_initialized, storage, remote, corrupted, first>>

ParseEntryUrl(input) ==
    /\ last = [op |-> "input", input |-> input]
    /\ last' = [op |-> "parse_entry_url", input |-> input,
                val |-> parse_entry_url(StringOf(input), None)]
    /\ UNCHANGED <<host, site, entries, redirects, words, pronounciations, media,
                   session_initialized, storage, remote, corrupted, first>>

RefNext ==
    \/ \E input \in RefInputs : ParseRef(input)
    \/ \E input \in RefInputs : ParseEntryUrl(input)

RefSpec == RefInit /\ [][RefNext]_vars

---------------------------------------------------------------------------
(* Serialisation as a state machine: an entry as the parser or             *)
(* get_super_entry builds it is written to a dictionary, or to the text    *)
(* of an entries row, and read back.                                       *)

\* super_entry and components of a definition: no th2 span in the header; a
\* span that holds the headword only; a components field or a definition
\* rewritten by get_super_entry; a span that spells a super-entry; a span
\* without children, whose text is empty.
HeaderShapes ==
    { [super_entry |-> None, components |-> None],
      [super_entry |-> None, components |-> List(<<SELF_REFERENCE>>)],
      [super_entry |-> None, components |-> List(<<EntryRef(1, NULL), EntryRef(2, "1")>>)],
      [super_entry |-> SuperHeadword(1),
       components |-> List(<<SELF_REFERENCE, EntryRef(2, NULL)>>)],
      [super_entry |-> Text(<<>>), components |-> List(<<>>)] }

\* A classifier, synonyms or related-words field is absent or lists the
\* entry link of each of its rows, of which it has at least one.
EntryLists == { None, List(<<EntryRef(3, NULL)>>), List(<<EntryRef(2, "1"), EntryRef(3, NULL)>>) }

Definitions(id) ==
    { [EntryDefinition(id, h.super_entry, h.components)
         EXCEPT !.classifiers = l.classifiers, !.related = l.related, !.synonyms = l.synonyms] :
        h \in HeaderShapes,
        l \in { x \in [classifiers : EntryLists, related : EntryLists, synonyms : EntryLists] :
                  x.related = None \/ x.synonyms = None } }

\* Entries with one definition, or with a plain first and any second one.
RoundTripEntries ==
    { DictionaryEntry(1, Headword(1),
          [n \in { Schemes[i] : i \in 1..Len(Schemes) } |-> Romanized(1, n)], ds) :
        ds \in { <<d>> : d \in Definitions(DEFAULT_DEFINITION) }
               \cup { <<EntryDefinition("1", None, None), d>> : d \in Definitions("2") } }

RoundTripInit ==
    /\ site = [alias |-> <<1, 2, 3>>, comps |-> <<None, None, None>>, cats |-> NoCategories,
               plain |-> NoComponents]
    /\ entries = {}
    /\ redirects = {}
    /\ words = <<>>
    /\ pronounciations = <<>>
    /\ media = {}
    /\ session_initialized = FALSE
    /\ storage = {}
    /\ remote = [p \in Paths |-> "bytes-1"]
    /\ corrupted = 0
    /\ first = [id \in Ids |-> None]
    /\ last \in { [op |-> "input", entry |-> e] : e \in RoundTripEntries }
    /\ host = NoHost

\* DictionaryEntry.from_dict(entry.to_dict())
RoundTrip(entry) ==
    /\ last = [op |-> "input", entry |-> entry]
    /\ last' = [op |-> "round_trip", entry |-> entry, val |-> from_dict(to_dict(entry))]
    /\ UNCHANGED <<host, site, entries, redirects, words, pronounciations, media,
                   session_initialized, storage, remote, corrupted, first>>

\* The same through the text of an entries row, as get_entry writes and
\* reads it.
CacheRoundTrip(entry) ==
    /\ last = [op |-> "input", entry |-> entry]
    /\ last' = [op |-> "cache_round_trip", entry |-> entry,
                val |-> from_dict(json_loads(json_dumps(to_dict(entry))))]
    /\ UNCHANGED <<host, site, entries, redirects, words, pronounciations, media,
                   session_initialized, storage, remote, corrupted, first>>

RoundTripNext ==
    \/ \E entry \in RoundTripEntries : RoundTrip(entry)
    \/ \E entry \in RoundTripEntries : CacheRoundTrip(entry)

RoundTripSpec == RoundTripInit /\ [][RoundTripNext]_vars

---------------------------------------------------------------------------
(* The plugin (src/__init__.py): host operations run on background workers *)
(* and take Plugin._fetcher_lock around all fetcher and formatter code.    *)
(* A worker's operation is a sequence of steps; get_entry is split into    *)
(* its cache lookups and its fetch, so that steps of several workers could *)
(* interleave inside it if the lock let them.                              *)

Workers == {1, 2}
\* fetch: _fetch_entry_note; update: _update_entry_note, which writes the
\* note after _fetch_entry_note has returned; cloze: _fetch_cloze_note;
\* verify: _verify_entry_media.
Kinds == {"fetch", "update", "cloze", "verify"}
\* Entry ids that the notes hold.
NoteIds == {1, 3}
\* Positions of a worker inside the with block.
Locked == {"refs", "fetch", "media", "cloze"}

\* Fault: the with block is entered whoever holds the lock.
CanAcquire_Always(h, w) == TRUE

\* Lock.acquire() succeeds when no worker holds the lock.
CanAcquire(h, w) == h.lock = 0

\* Lock.release(), at every exit of the with block.
Release(h) == [h EXCEPT !.lock = 0]

\* Successful GETs of id's page among the requests of log.
PageGets(log, id) ==
    Cardinality({ i \in 1..Len(log) :
        log[i].request = "GET entry" /\ log[i].id = id /\ log[i].status = 200 })

HostSites ==
    { s \in Sites :
        \/ s.alias = <<1, 2, 3>> /\ s.comps = <<None, None, None>>
        \/ s.alias = <<1, 2, 1>> /\ s.comps = <<None, None, None>>
        \/ /\ s.alias = <<1, 2, 1>>
           /\ s.comps = <<List(<<SELF_REFERENCE, EntryRef(3, NULL)>>), None, None>> }

HostInit ==
    /\ site \in HostSites
    /\ entries = {} /\ redirects = {} /\ media = {}
    /\ words = <<>> /\ pronounciations = <<>>
    /\ session_initialized = FALSE /\ storage = {}
    /\ remote = [p \in Paths |-> "bytes-1"]
    /\ corrupted = 0
    /\ first = [id \in Ids |-> None]
    /\ last = [op |-> "init"]
    /\ host = [lock |-> 0,
               pc |-> [w \in Workers |-> "idle"],
               kind |-> [w \in Workers |-> "fetch"],
               id |-> [w \in Workers |-> 1],
               uncached |-> [w \in Workers |-> FALSE],
               entry |-> [w \in Workers |-> None],
               gets |-> [w \in Workers |-> 0]]

\* The step of worker w that the state records as performed last.
HostStep(w, exit) == [op |-> "host", worker |-> w, exit |-> exit]

\* The tables and the session after a step of a worker that ended in c.
HostCommit(c) ==
    /\ Commit(c)
    /\ UNCHANGED <<site, remote, corrupted, first>>

\* The with block is left: by return, or by an exception that passes through
\* it.  Either way the lock is released; _update_entry_note goes on to write
\* the note when _fetch_entry_note returned.
Leave(h, w, returned) ==
    [Release(h) EXCEPT !.pc[w] = IF returned /\ h.kind[w] = "update" THEN "write" ELSE "idle",
                       !.entry[w] = None]

\* QueryOp / CollectionOp .run_in_background(): the operation starts on a
\* worker, for a note that holds id.
Start(w, kind, id) ==
    /\ host.pc[w] = "idle"
    /\ host' = [host EXCEPT !.pc[w] = "waiting", !.kind[w] = kind, !.id[w] = id,
                            !.uncached[w] = SelectRedirect(Context(0, <<>>), id) = {}
                                            /\ ~HasEntry(Context(0, <<>>), id),
                            !.gets[w] = 0]
    /\ last' = HostStep(w, "none")
    /\ UNCHANGED <<site, entries, redirects, words, pronounciations, media,
                   session_initialized, storage, remote, corrupted, first>>

\* with self._fetcher_lock:
Acquire(w) ==
    /\ host.pc[w] = "waiting"
    /\ CanAcquire(host, w)
    /\ host' = [host EXCEPT !.lock = w,
                            !.pc[w] = IF host.kind[w] = "cloze" THEN "cloze" ELSE "refs"]
    /\ last' = HostStep(w, "none")
    /\ UNCHANGED <<site, entries, redirects, words, pronounciations, media,
                   session_initialized, storage, remote, corrupted, first>>

\* parse_any_ref on the note's id, then entry_to_note up to the cache
\* lookups of get_entry: a redirect or a row for the id serves the entry.
Refs(w) ==
    /\ host.pc[w] = "refs"
    /\ LET c == Context(0, <<>>)
           id == host.id[w]
           hit == SelectRedirect(c, id) # {} \/ HasEntry(c, id)
       IN  \E r \in {IF hit THEN get_entry(c, id, MaxDepth) ELSE Ok(c, None)} :
              /\ HostCommit(r.c)
              /\ host' = IF ~hit THEN [host EXCEPT !.pc[w] = "fetch"]
                         ELSE IF r.ok THEN [host EXCEPT !.pc[w] = "media", !.entry[w] = r.val]
                         ELSE Leave(host, w, FALSE)
              /\ last' = HostStep(w, IF hit /\ ~r.ok THEN "error" ELSE "none")

\* get_entry after its cache lookups missed; the network fails the fail-th
\* request.  An exception leaves the with block.
Fetch(w, fail) ==
    /\ host.pc[w] = "fetch"
    /\ \E r \in {FetchAndStore(Context(fail, <<>>), host.id[w], MaxDepth)} :
          /\ HostCommit(r.c)
          /\ host' = [IF r.ok THEN [host EXCEPT !.pc[w] = "media", !.entry[w] = r.val]
                      ELSE Leave(host, w, FALSE)
                        EXCEPT !.gets[w] = @ + PageGets(r.c.log, host.id[w])]
          /\ last' = HostStep(w, IF r.ok THEN "none" ELSE "error")

\* The loop over word_note.media: no file to fetch (the note has no sound,
\* or the collection has the file and the operation does not verify), or
\* get_media_data(path), with verify=True in _verify_entry_media.
Media(w, fetch, fail) ==
    /\ host.pc[w] = "media"
    /\ host.kind[w] = "verify" => fetch
    /\ ~fetch => fail = 0
    /\ LET path == "/mp3/a.mp3"
           verify == host.kind[w] = "verify"
       IN  \E served \in { <<>>, <<remote[path]>> } :
           \E r \in {IF fetch THEN get_media_data(Context(fail, served), path, verify)
                     ELSE Ok(Context(0, <<>>), None)} :
              /\ IF r.ok THEN TRUE ELSE r.val.type # "pending"
              /\ MediaFetches(r.c.log) = Len(served)
              /\ HostCommit(r.c)
              /\ host' = Leave(host, w, r.ok)
              /\ last' = HostStep(w, IF r.ok THEN "return" ELSE "error")

\* formatter.cloze_to_note(id_cloze): its code is not part of the source
\* tree; it returns or raises, and leaves the with block either way.
Cloze(w, returned) ==
    /\ host.pc[w] = "cloze"
    /\ host' = Leave(host, w, returned)
    /\ last' = HostStep(w, IF returned THEN "return" ELSE "error")
    /\ UNCHANGED <<site, entries, redirects, words, pronounciations, media,
                   session_initialized, storage, remote, corrupted, first>>

\* _update_entry_note after _fetch_entry_note: the note's fields are written.
WriteNote(w) ==
    /\ host.pc[w] = "write"
    /\ host' = [host EXCEPT !.pc[w] = "idle"]
    /\ last' = HostStep(w, "none")
    /\ UNCHANGED <<site, entries, redirects, words, pronounciations, media,
                   session_initialized, storage, remote, corrupted, first>>

HostNext ==
    \/ \E w \in Workers, kind \in Kinds, id \in NoteIds : Start(w, kind, id)
    \/ \E w \in Workers : Acquire(w)
    \/ \E w \in Workers : Refs(w)
    \/ \E w \in Workers, fail \in 0..MaxFail : Fetch(w, fail)
    \/ \E w \in Workers, fetch \in BOOLEAN, fail \in 0..MaxFail : Media(w, fetch, fail)
    \/ \E w \in Workers, returned \in BOOLEAN : Cloze(w, returned)
    \/ \E w \in Workers : WriteNote(w)

HostSpec == HostInit /\ [][HostNext]_vars

---------------------------------------------------------------------------
(* NoteFormatter (src/thai_dictionary/note.py): an entry as the fields of  *)
(* a note.  A joined string is kept as its separator and its parts.  The   *)
(* model of an entry has no sound_url, so no media is used.                *)

WordNote(ref, word, definition, extra) ==
    [ref |-> ref, word |-> word, definition |-> definition, extra |-> extra]
WordComponent(id, definition, entry, level) ==
    [id |-> id, definition |-> definition, entry |-> entry, level |-> level]

\* NoteFormatter.__init__: the default pronunciation scheme.
pronounciation_type == "Paiboon"

html_escape(str) == [escaped |-> str]
Joined(sep, parts) == [sep |-> sep, parts |-> parts]
\* str.replace(" ", "-")
Hyphenated(str) == Joined("-", str.toks)

\* Is name an element of one of the category paths of defn?
InCategory(defn, name) ==
    \E i \in 1..Len(defn.categories) :
        \E j \in 1..Len(defn.categories[i]) : defn.categories[i][j] = name

\* Fault: every definition is taken as suitable.
is_suitable_definition_Any(entry, defn) == TRUE

is_suitable_definition(entry, defn) ==
    IF defn.super_entry # None THEN FALSE
    ELSE IF InCategory(defn, "The English Alphabet") THEN FALSE
    ELSE TRUE

suitable_definitions(c, entry) ==
    LET suitable == SelectSeq(entry.definitions, LAMBDA d : is_suitable_definition(entry, d))
        defns == [i \in 1..Len(suitable) |-> suitable[i].id]
    IN  IF Len(defns) = 0
        THEN Raise(c, Exception("RuntimeError", "No suitable definitions found", ""))
        ELSE Ok(c, defns)

format_word(entry) == html_escape(Hyphenated(entry.pronounciations[pronounciation_type]))
format_word_field(entry) == format_word(entry)

first_definition(entry) == entry.definitions[1].id

\* format_definition: the value is None when the definition id is no key of
\* entry.definitions (a KeyError).
format_definition(entry, defn) ==
    LET id == IF defn = NULL THEN first_definition(entry) ELSE defn
    IN  IF id \notin DefinitionIds(entry) THEN None
        ELSE html_escape(DefinitionOf(entry, id).definition)

format_definition_field(c, entry) ==
    LET defns == suitable_definitions(c, entry)
    IN  IF ~defns.ok THEN defns
        ELSE Ok(c, Joined("<br>", [i \in 1..Len(defns.val) |->
                                    format_definition(entry, defns.val[i])]))

format_component(component) ==
    [nbsps |-> 2 * component.level, word |-> format_word(component.entry),
     definition |-> format_definition(component.entry, component.definition)]

\* Fault: the walk never records a component as visited.
Visit_Forgets(visited, comp_ref) == visited

\* visited.add(comp_ref)
Visit(visited, comp_ref) == visited \cup {comp_ref}

RECURSIVE build_components(_, _, _, _, _)
RECURSIVE WalkComponents(_, _, _, _, _, _, _, _)

\* The loop of build_components over the components of comp_defn, from the
\* i-th on; out holds the components yielded so far.  The value is the
\* components yielded and the visited set as the walk leaves it.
WalkComponents(c, entry, comps, i, visited, level, out, depth) ==
    IF i > Len(comps) THEN Ok(c, [components |-> out, visited |-> visited])
    ELSE IF comps[i] = SELF_REFERENCE \/ comps[i].id = entry.id
    THEN WalkComponents(c, entry, comps, i + 1, visited, level, out, depth)
    ELSE LET Nested(component, defn, comp_entry, nested) ==
                 IF ~nested.ok THEN nested
                 ELSE WalkComponents(nested.c, entry, comps, i + 1, nested.val.visited,
                          level,
                          out \o <<WordComponent(component.id, defn, comp_entry, level)>>
                              \o nested.val.components,
                          depth)
             Yield(component, defn, comp_entry) ==
                 IF ~comp_entry.ok THEN comp_entry
                 ELSE Nested(component, defn, comp_entry.val,
                          build_components(comp_entry.c, comp_entry.val,
                              Visit(visited, EntryRef(component.id, defn)),
                              level + 1, depth - 1))
             Component(component) ==
                 LET defn == IF comps[i].definition = NULL
                             THEN first_definition(component.val)
                             ELSE comps[i].definition
                 IN  IF ~component.ok THEN component
                     ELSE IF EntryRef(component.val.id, defn) \in visited
                     THEN WalkComponents(component.c, entry, comps, i + 1, visited, level,
                                         out, depth)
                     ELSE IF defn \notin DefinitionIds(component.val)
                     THEN Raise(component.c, Exception("KeyError", "", ""))
                     ELSE Yield(component.val, defn,
                              IF DefinitionOf(component.val, defn).super_entry # None
                              THEN get_super_entry(component.c, component.val, defn, depth)
                              ELSE Ok(component.c, component.val))
         IN  Component(get_entry(c, comps[i].id, depth))

build_components(c, entry, visited, level, depth) ==
    LET components == SelectSeq(entry.definitions,
                          LAMBDA d : d.components # None /\ d.super_entry = None)
    IN  IF depth <= 0
        THEN Raise(c, Exception("RecursionError", "maximum recursion depth exceeded", ""))
        ELSE IF components = <<>> THEN Ok(c, [components |-> <<>>, visited |-> visited])
        ELSE WalkComponents(c, entry, components[1].components.list, 1, visited, level,
                            <<>>, depth)

\* The classifier line of format_extra_field; "" when no definition has a
\* classifier.
ClassifierLine(c, entry, depth) ==
    LET with == SelectSeq(entry.definitions,
                    LAMBDA d : d.classifiers # None /\ Len(d.classifiers.list) > 0)
        classifier_ref == with[1].classifiers.list[1]
        Line(classifier_entry) ==
            LET classifier_defn == format_definition(classifier_entry.val,
                                                     classifier_ref.definition)
            IN  IF ~classifier_entry.ok THEN classifier_entry
                ELSE IF classifier_defn = None
                THEN Raise(classifier_entry.c, Exception("KeyError", "", ""))
                ELSE Ok(classifier_entry.c,
                        [classifier |-> format_word(classifier_entry.val),
                         definition |-> classifier_defn])
    IN  IF with = <<>> THEN Ok(c, "")
        ELSE Line(get_entry(c, classifier_ref.id, depth))

format_extra_field(c, entry, depth) ==
    LET Extra(components, classifier_str) ==
            IF ~classifier_str.ok THEN classifier_str
            ELSE Ok(classifier_str.c,
                    [classifier |-> classifier_str.val,
                     components |-> Joined("<br>",
                         [i \in 1..Len(components) |-> format_component(components[i])])])
        Classified(components) ==
            IF ~components.ok THEN components
            ELSE Extra(components.val.components, ClassifierLine(components.c, entry, depth))
    IN  Classified(build_components(c, entry, {}, 0, depth))

_entry_to_note(c, ref, entry, depth) ==
    LET word_str == format_word_field(entry)
        definition_str == format_definition_field(c, entry)
        Note(extra_str) ==
            IF ~extra_str.ok THEN extra_str
            ELSE Ok(extra_str.c, WordNote(ref, word_str, definition_str.val, extra_str.val))
    IN  IF ~definition_str.ok THEN definition_str
        ELSE Note(format_extra_field(definition_str.c, entry, depth))

\* The entry that entry_to_note formats: the entry of ref.id, cut down to
\* the definition the reference names, or the virtual entry of that
\* definition when it is a super-entry.
NoteEntry(c, ref, depth) ==
    LET Virtual(entry) ==
            LET defn == DefinitionOf(entry.val, ref.definition)
            IN  IF ~entry.ok THEN entry
                ELSE IF ref.definition = NULL THEN entry
                ELSE IF ref.definition \notin DefinitionIds(entry.val)
                THEN Raise(entry.c, Exception("EntryNotFound", "", ""))
                ELSE IF defn.super_entry = None
                THEN Ok(entry.c, [entry.val EXCEPT !.definitions = <<defn>>])
                ELSE get_super_entry(entry.c, entry.val, ref.definition, depth)
    IN  Virtual(get_entry(c, ref.id, depth))

\* list(build_components(entry)): the components, or the exception.
ComponentWalk(c, entry, depth) ==
    LET Listed(components) ==
            [ok |-> components.ok,
             val |-> IF components.ok THEN components.val.components ELSE components.val]
    IN  Listed(build_components(c, entry, {}, 0, depth))

\* entry_to_note from the entry it formats on.
FormatNote(new_entry, ref, depth) ==
    IF ~new_entry.ok THEN new_entry
    ELSE _entry_to_note(new_entry.c, EntryRef(new_entry.val.id, ref.definition),
                        new_entry.val, depth)

entry_to_note(c, ref, depth) == FormatNote(NoteEntry(c, ref, depth), ref, depth)

---------------------------------------------------------------------------
(* The formatter as a state machine over its fetcher, on sites whose pages *)
(* list categories.                                                        *)

NoteCategories ==
    { <<>>,
      << <<"Language", "The English Alphabet">> >>,
      << <<"Numbers">>, <<"The English Alphabet", "Vowels">> >> }

NoteSites ==
    { [s EXCEPT !.cats = <<k1, k2, <<>>>>] :
        s \in { t \in Sites : /\ t.alias = <<1, 2, 3>>
                              /\ t.comps[3] = None
                              /\ t.comps[1] \in {None, List(<<SELF_REFERENCE, EntryRef(2, NULL)>>)} },
        k1 \in NoteCategories, k2 \in {<<>>, << <<"Numbers">> >>} }

NoteRefs == { EntryRef(id, d) : id \in {1, 2}, d \in {NULL, DEFAULT_DEFINITION, "1", "2"} }

NoteInit ==
    /\ site \in NoteSites
    /\ entries = {} /\ redirects = {} /\ words = <<>> /\ pronounciations = <<>>
    /\ media = {} /\ session_initialized = FALSE /\ storage = {}
    /\ remote = [p \in Paths |-> "bytes-1"]
    /\ corrupted = 0
    /\ first = [id \in Ids |-> None]
    /\ last = [op |-> "init"]
    /\ host = NoHost

\* A caller invokes entry_to_note(ref); last.entry is the entry the fields
\* were formatted from, None when the call failed before it had one, and
\* last.walk the outcome of list(build_components(entry)) in
\* format_extra_field, None when the call failed before the walk.
EntryToNote(ref, fail) ==
    \E new_entry \in {NoteEntry(Context(fail, <<>>), ref, MaxDepth)} :
        \E r \in {FormatNote(new_entry, ref, MaxDepth)} :
            /\ Commit(r.c)
            /\ last' = [op |-> "entry_to_note", ref |-> ref, ok |-> r.ok, val |-> r.val,
                        log |-> r.c.log,
                        entry |-> IF new_entry.ok THEN new_entry.val ELSE None,
                        walk |-> IF new_entry.ok
                                    /\ suitable_definitions(new_entry.c, new_entry.val).ok
                                 THEN ComponentWalk(new_entry.c, new_entry.val, MaxDepth)
                                 ELSE None]
            /\ UNCHANGED <<host, site, remote, corrupted, first>>

NoteNext ==
    \/ \E ref \in NoteRefs, fail \in 0..MaxFail : EntryToNote(ref, fail)
    \/ \E id \in Ids, fail \in 0..MaxFail : GetEntry(id, fail)

NoteSpec == NoteInit /\ [][NoteNext]_vars

---------------------------------------------------------------------------
(* The formatter on sites whose plain definitions list components: a       *)
(* self-reference with a component that refers back, sub-words shared by   *)
(* two entries, a component listed twice, a component that is a            *)
(* super-entry definition, and a component reached through an alias.       *)

WalkComponentMaps ==
    { <<List(<<SELF_REFERENCE, EntryRef(2, NULL)>>), List(<<EntryRef(1, NULL)>>), None>>,
      <<List(<<EntryRef(2, NULL), EntryRef(3, NULL)>>), List(<<EntryRef(3, NULL)>>), None>>,
      <<List(<<EntryRef(2, NULL), EntryRef(2, NULL)>>), None, None>>,
      <<List(<<SELF_REFERENCE, EntryRef(2, "2")>>), List(<<EntryRef(1, NULL)>>), None>>,
      <<List(<<EntryRef(3, NULL)>>), None, List(<<EntryRef(1, NULL)>>)>> }

WalkSites ==
    { s \in { [alias |-> a, comps |-> c, cats |-> NoCategories, plain |-> p] :
                a \in { <<1, 2, 3>>, <<1, 2, 1>> },
                c \in { <<None, None, None>>,
                        <<None, List(<<EntryRef(1, NULL)>>), None>>,
                        <<List(<<SELF_REFERENCE, EntryRef(2, NULL)>>),
                          List(<<EntryRef(1, NULL)>>), None>> },
                p \in WalkComponentMaps } :
        \* page 3 is an alias only where a component refers to it
        s.alias[3] = 1 => s.plain[1] = List(<<EntryRef(3, NULL)>>) }

WalkInit ==
    /\ site \in WalkSites
    /\ entries = {} /\ redirects = {} /\ words = <<>> /\ pronounciations = <<>>
    /\ media = {} /\ session_initialized = FALSE /\ storage = {}
    /\ remote = [p \in Paths |-> "bytes-1"]
    /\ corrupted = 0
    /\ first = [id \in Ids |-> None]
    /\ last = [op |-> "init"]
    /\ host = NoHost

WalkNext == \E ref \in NoteRefs, fail \in 0..MaxFail : EntryToNote(ref, fail)

WalkSpec == WalkInit /\ [][WalkNext]_vars

---------------------------------------------------------------------------
(* The plugin's operations over all notes of a note type (src/__init__.py): *)
(* one loop over the notes, each note handled as the single-note operation  *)
(* handles it.  A note is the string in its Id field; the model of an entry *)
(* has no sound_url, so whether a note's media loop fetches a file is an    *)
(* input of the operation.                                                  *)

MaxNotes == 2

\* anki.utils.strip_html: the markup that _update_entry_note wraps the
\* reference in is removed.
strip_html(str) == SelectSeq(str, LAMBDA p : p \notin {"<a>", "</a>"})

RECURSIVE WordToks(_, _)
\* raw_ref.replace("-", " ") as a text: the tokens between blanks.
WordToks(str, cur) ==
    IF str = <<>> THEN IF cur = "" THEN <<>> ELSE <<Token(cur, FALSE, FALSE)>>
    ELSE IF Head(str) \in {"-", " "}
    THEN (IF cur = "" THEN <<>> ELSE <<Token(cur, FALSE, FALSE)>>) \o WordToks(Tail(str), "")
    ELSE WordToks(Tail(str), cur \o Head(str))

\* parse_any_ref (refs.py): a reference, an entry URL, a word of the word
\* index or of the server's search, or a pronunciation; response is the
\* server's answer to the search.
parse_any_ref(c, raw_ref, response, depth) ==
    LET str == Strip(strip_html(raw_ref))
        raw_word == Text(WordToks(str, ""))
        Translits(translits) ==
            Ok(translits.c, List([i \in 1..Len(translits.val.list) |->
                                    EntryRef(translits.val.list[i], NULL)]))
        Words(found) ==
            IF ~found.ok THEN found
            ELSE IF Len(found.val.list) > 0 THEN found
            ELSE Translits(lookup_pronounciation(found.c, raw_word))
    IN  IF str = <<>> THEN Ok(c, List(<<>>))
        ELSE IF parse_ref(str) # None THEN Ok(c, List(<<parse_ref(str)>>))
        ELSE IF parse_entry_url(str, None) # None
        THEN Ok(c, List(<<parse_entry_url(str, None)>>))
        ELSE Words(lookup_word(c, raw_word, FALSE, response, depth))

\* The media file of the notes that have one.
NotePath == "/mp3/a.mp3"

\* _fetch_entry_note and _verify_entry_media, inside the with block: the
\* reference of the Id field, the note of its first match, then the media
\* loop, which verifies in _verify_entry_media.
EntryNote(c, raw_id, response, kind, fetch, depth) ==
    LET MediaLoop(word_note) ==
            LET Fetched(file_data) == IF file_data.ok THEN Ok(file_data.c, word_note.val)
                                      ELSE file_data
            IN  IF ~word_note.ok
                THEN IF word_note.val.type = "EntryNotFound"
                     THEN Raise(word_note.c, Exception("AnkiEntryNotFound", "", ""))
                     ELSE word_note
                ELSE IF ~fetch THEN word_note
                ELSE Fetched(get_media_data(word_note.c, NotePath, kind = "verify"))
        First(refs) ==
            IF ~refs.ok THEN refs
            ELSE IF Len(refs.val.list) = 0
            THEN Raise(refs.c, Exception("AnkiEntryNotFound", "", ""))
            ELSE MediaLoop(entry_to_note(refs.c, refs.val.list[1], depth))
    IN  First(parse_any_ref(c, raw_id, response, depth))

\* except AnkiEntryNotFound: pass
Skips(exception) == exception.type = "AnkiEntryNotFound"

RECURSIVE ModelNotes(_, _, _, _, _, _, _, _)
\* The loop over all_nids from note i on; outcomes lists what became of the
\* notes handled so far, with the reference of the note made.  An exception
\* other than AnkiEntryNotFound leaves the loop and the operation.
ModelNotes(c, kind, notes, i, response, fetch, outcomes, depth) ==
    LET Handled(r) ==
            IF r.ok
            THEN ModelNotes(r.c, kind, notes, i + 1, response, fetch,
                            Append(outcomes, [status |-> "done", ref |-> r.val.ref]), depth)
            ELSE IF Skips(r.val)
            THEN ModelNotes(r.c, kind, notes, i + 1, response, fetch,
                            Append(outcomes, [status |-> "skipped", ref |-> None]), depth)
            ELSE [c |-> r.c, ok |-> FALSE, val |-> r.val, outcomes |-> outcomes]
    IN  IF i > Len(notes)
        THEN [c |-> c, ok |-> TRUE, val |-> None, outcomes |-> outcomes]
        ELSE Handled(EntryNote(c, notes[i], response, kind, fetch, depth))

\* ref_to_string
ref_to_string(ref) ==
    IF ref.definition = NULL THEN <<ToString(ref.id)>>
    ELSE <<ToString(ref.id), "#", ref.definition>>

\* _update_entry_note: the Id field becomes a link around the reference.
IdField(ref) == <<"<a>">> \o ref_to_string(ref) \o <<"</a>">>

\* The Id fields of the notes: the reference of entry 1, the marked-up
\* reference of entry 3, a reference to a definition that entry 2 does not
\* have, a word that no entry has, and the headword of entry 1.
NoteFields ==
    { <<"1">>, <<"<a>", "3", "</a>">>, <<"2", "#", "3">>, <<"zzz">>, <<"word", "-", "1">> }

NoteLists == UNION { [1..n -> NoteFields] : n \in 1..MaxNotes }

\* The server's search finds none of the notes' texts.
NoMatch == [status |-> 200]

\* A site whose page 3 is missing, or an alias of entry 1, or an entry.
BatchSites ==
    { s \in LookupSites : s.cats = NoCategories /\ s.plain = NoComponents }

\* The collection holds the notes of one note type.
BatchInit ==
    /\ site \in BatchSites
    /\ entries = {} /\ redirects = {} /\ media = {}
    /\ words = <<>> /\ pronounciations = <<>>
    /\ session_initialized = FALSE /\ storage = {}
    /\ remote = [p \in Paths |-> "bytes-1"]
    /\ corrupted = 0
    /\ first = [id \in Ids |-> None]
    /\ last = [op |-> "init"]
    /\ host \in { [lock |-> 0, notes |-> notes] : notes \in NoteLists }

\* The operation kind over the notes of the collection; the network fails
\* its fail-th request.  col.update_notes writes the notes that
\* _update_model_notes_proc processed, when the loop ran to its end.
ModelNotesProc(kind, fetch, fail) ==
    \E r \in {ModelNotes(Context(fail, [k \in 1..(2 * MaxNotes) |-> remote[NotePath]]),
                         kind, host.notes, 1, NoMatch, fetch, <<>>, MaxDepth)} :
        /\ fail <= Len(r.c.log)
        /\ Commit(r.c)
        /\ host' = IF kind = "update" /\ r.ok
                   THEN [host EXCEPT !.notes =
                            [i \in 1..Len(host.notes) |->
                                IF r.outcomes[i].status = "done"
                                THEN IdField(r.outcomes[i].ref) ELSE host.notes[i]]]
                   ELSE host
        /\ last' = [op |-> "batch", kind |-> kind, notes |-> host.notes, fetch |-> fetch,
                    ok |-> r.ok, val |-> r.val, outcomes |-> r.outcomes, log |-> r.c.log]
        /\ UNCHANGED <<site, remote, corrupted, first>>

\* _fetch_model_notes_proc; fetch: the notes have a media file that the
\* collection lacks.
FetchModelNotes(fetch, fail) == ModelNotesProc("fetch", fetch, fail)

\* _update_model_notes_proc
UpdateModelNotes(fetch, fail) == ModelNotesProc("update", fetch, fail)

\* _verify_model_media_proc; fetch: the notes have a media file.
VerifyModelMedia(fetch, fail) == ModelNotesProc("verify", fetch, fail)

BatchNext ==
    \/ \E fetch \in BOOLEAN, fail \in 0..MaxFail : FetchModelNotes(fetch, fail)
    \/ \E fetch \in BOOLEAN, fail \in 0..MaxFail : UpdateModelNotes(fetch, fail)
    \/ \E fetch \in BOOLEAN, fail \in 0..MaxFail : VerifyModelMedia(fetch, fail)

BatchSpec == BatchInit /\ [][BatchNext]_vars

---------------------------------------------------------------------------
(* The definitions table of an entry page (fetch.py): the row walk of      *)
(* _parse_definitions_table over the rows of the table.  A row is the list *)
(* of its cells; a cell has its text (that of its descendants included),   *)
(* its rowspan attribute and the one tag of interest inside it, if any: an *)
(* anchor of class "ord" with a name, an anchor of class "hy" whose text   *)
(* is a category path, a plain anchor with an href, or an image.           *)

Cell(text, rowspan, tag) == [text |-> text, rowspan |-> rowspan, tag |-> tag]
Row(cells) == [cells |-> cells]

Returns(v) == [ok |-> TRUE, val |-> v]
Raises(type, msg) == [ok |-> FALSE, val |-> Exception(type, msg, "")]

\* _is_definitions_separator_row: tag.get_text() == ""
_is_definitions_separator_row(tag) ==
    \A i \in 1..Len(tag.cells) : tag.cells[i].text = ""

\* _parse_definition_header for a cell without class list, common-word
\* image or super-entry span: None unless the row has exactly one cell.
_parse_definition_header(tag, id) ==
    LET cell == tag.cells[1]
        named == /\ cell.tag # None /\ cell.tag.class = "ord"
                 /\ Len(cell.tag.name) >= 2 /\ cell.tag.name[1] = "def"
                 /\ DigitRun(cell.tag.name, 2) >= 1
    IN  IF Len(tag.cells) # 1 THEN None
        ELSE [id |-> IF named THEN Concat(Tail(cell.tag.name)) ELSE DEFAULT_DEFINITION,
              classes |-> List(<<>>),
              super_entry |-> NULL,
              is_common |-> FALSE]

\* dict.update
Update(data, new) == new @@ data

_parse_definition_field(rows) ==
    IF Len(rows) # 1 THEN Raises("RuntimeError", "Invalid rows count in a definition")
    ELSE IF Len(rows[1]) # 2
    THEN Raises("RuntimeError", "Invalid cells count in a definition")
    ELSE Returns([definition |-> rows[1][2].text])

_parse_image_field(rows) ==
    IF Len(rows) # 1 THEN Raises("RuntimeError", "Invalid rows count in an image")
    ELSE IF Len(rows[1]) # 2 THEN Raises("RuntimeError", "Invalid cells count in an image")
    ELSE IF rows[1][2].tag = None \/ rows[1][2].tag.class # "img"
    THEN Raises("KeyError", "Tag not found")
    ELSE Returns([image_url |-> rows[1][2].tag.src])

\* _parse_categories_field: the path of the "hy" anchor in the last cell of
\* each row.
_parse_categories_field(rows) ==
    LET last_cell(row) == row[Len(row)]
    IN  IF \E i \in 1..Len(rows) :
              Len(rows[i]) = 0 \/ last_cell(rows[i]).tag = None
                \/ last_cell(rows[i]).tag.class # "hy"
        THEN Raises("KeyError", "Tag not found")
        ELSE Returns([categories |->
                        List([i \in 1..Len(rows) |-> last_cell(rows[i]).tag.path])])

\* _is_entry_link on the tag of a cell.
_is_entry_link(cell) ==
    cell.tag # None /\ cell.tag.class = "a" /\ FullMatches(cell.tag.href) # {}

\* _parse_entry_list_field: one reference per row, from the first entry
\* link of the row.
_parse_entry_list_field(rows, id) ==
    LET Links(row) == SelectSeq(row, _is_entry_link)
        ref(row) == parse_entry_url(Links(row)[1].tag.href, [id |-> id])
    IN  IF \E i \in 1..Len(rows) : Links(rows[i]) = <<>>
        THEN Raises("RuntimeError", "Failed to fink an entry link in rows")
        ELSE IF \E i \in 1..Len(rows) : ref(rows[i]) = None
        THEN Raises("RuntimeError", "Failed to parse an entry URL")
        ELSE Returns(List([i \in 1..Len(rows) |-> ref(rows[i])]))

\* Fault: a field name without a rule fails the parse.
ParseField_Strict(data, field_name, field_rows, id) ==
    LET Updated(r) == IF r.ok THEN Returns(Update(data, r.val)) ELSE r
        Stored(key, r) == IF r.ok THEN Returns(Update(data, key :> r.val)) ELSE r
    IN  IF field_name = "definition" THEN Updated(_parse_definition_field(field_rows))
        ELSE IF field_name = "categories" THEN Updated(_parse_categories_field(field_rows))
        ELSE IF field_name = "components"
        THEN Stored("components", _parse_entry_list_field(field_rows, id))
        ELSE IF field_name = "classifier"
        THEN Stored("classifiers", _parse_entry_list_field(field_rows, id))
        ELSE IF field_name = "synonyms"
        THEN Stored("synonyms", _parse_entry_list_field(field_rows, id))
        ELSE IF field_name = "related words"
        THEN Stored("related", _parse_entry_list_field(field_rows, id))
        ELSE IF field_name = "image" THEN Updated(_parse_image_field(field_rows))
        ELSE Raises("RuntimeError", "Unknown field name")

\* The dispatch on field_name in _parse_definitions_table: the rule of a
\* known field updates data; an unknown name is logged, data stays.
ParseField(data, field_name, field_rows, id) ==
    LET Updated(r) == IF r.ok THEN Returns(Update(data, r.val)) ELSE r
        Stored(key, r) == IF r.ok THEN Returns(Update(data, key :> r.val)) ELSE r
    IN  IF field_name = "definition" THEN Updated(_parse_definition_field(field_rows))
        ELSE IF field_name = "categories" THEN Updated(_parse_categories_field(field_rows))
        ELSE IF field_name = "components"
        THEN Stored("components", _parse_entry_list_field(field_rows, id))
        ELSE IF field_name = "classifier"
        THEN Stored("classifiers", _parse_entry_list_field(field_rows, id))
        ELSE IF field_name = "synonyms"
        THEN Stored("synonyms", _parse_entry_list_field(field_rows, id))
        ELSE IF field_name = "related words"
        THEN Stored("related", _parse_entry_list_field(field_rows, id))
        ELSE IF field_name = "image" THEN Updated(_parse_image_field(field_rows))
        ELSE Returns(data)

RECURSIVE FieldRows(_, _, _, _)
\* The inner loop of _parse_definitions_table from row j on: a field takes
\* its row and the rowspan - 1 rows after it, whatever they are.  The value
\* is the data collected and the position of the row the loop stopped at.
FieldRows(rows, j, data, id) ==
    LET field_header == rows[j].cells[1]
        count == IF field_header.rowspan > 1 THEN field_header.rowspan ELSE 1
        end == IF j + count - 1 > Len(rows) THEN Len(rows) ELSE j + count - 1
        field_rows == [k \in 1..(end - j + 1) |-> rows[j + k - 1].cells]
        Further(r) ==
            IF r.ok THEN FieldRows(rows, end + 1, r.val, id)
            ELSE Raises("RuntimeError", "Failed to parse field")
    IN  IF j > Len(rows) \/ _is_definitions_separator_row(rows[j])
        THEN Returns([data |-> data, current |-> j])
        ELSE IF Len(rows[j].cells) = 0 THEN Raises("IndexError", "list index out of range")
        ELSE Further(ParseField(data, field_header.text, field_rows, id))

\* The fields of the dataclass EntryDefinition that have no default.
Required == {"id", "definition", "classes"}

\* EntryDefinition(**data): a TypeError when a required field is missing.
NewEntryDefinition(data) ==
    LET defaults == [super_entry |-> NULL, is_common |-> FALSE, categories |-> List(<<>>),
                     components |-> None, classifiers |-> None, related |-> None,
                     synonyms |-> None, image_url |-> NULL]
    IN  IF ~(Required \subseteq DOMAIN data)
        THEN Raises("TypeError", "missing required positional argument")
        ELSE Returns(data @@ defaults)

RECURSIVE SkipNotes(_, _)
\* The position of the first separator row from i on, or past the end.
SkipNotes(rows, i) ==
    IF i > Len(rows) \/ _is_definitions_separator_row(rows[i]) THEN i
    ELSE SkipNotes(rows, i + 1)

RECURSIVE WalkRows(_, _, _, _)
\* The outer loop of _parse_definitions_table with current at row i and out
\* the definitions yielded so far.
WalkRows(rows, i, out, id) ==
    LET header_data == _parse_definition_header(rows[i], id)
        Yield(entry, current) ==
            IF ~entry.ok THEN entry
            ELSE WalkRows(rows, current + 1, Append(out, entry.val), id)
        Definition(fields) ==
            IF ~fields.ok THEN fields
            ELSE Yield(NewEntryDefinition(fields.val.data), fields.val.current)
    IN  IF i > Len(rows) THEN Returns(out)
        ELSE IF _is_definitions_separator_row(rows[i]) THEN WalkRows(rows, i + 1, out, id)
        ELSE IF header_data = None THEN WalkRows(rows, SkipNotes(rows, i), out, id)
        ELSE Definition(FieldRows(rows, i + 1, header_data, id))

\* list(_parse_definitions_table(table, id, entry_word)): the definitions
\* in document order, or the exception that ends the generator.
_parse_definitions_table(table, id) == WalkRows(table, 1, <<>>, id)

RECURSIVE ById(_)
\* {entry.id: entry for entry in ...}: a later definition replaces an
\* earlier one of the same id.
ById(defns) ==
    IF defns = <<>> THEN <<>>
    ELSE LET d == defns[Len(defns)]
             rest == ById(SubSeq(defns, 1, Len(defns) - 1))
         IN  IF \E k \in 1..Len(rest) : rest[k].id = d.id
             THEN [k \in 1..Len(rest) |-> IF rest[k].id = d.id THEN d ELSE rest[k]]
             ELSE Append(rest, d)

\* _parse_entry_definitions: every exception of the walk leaves as a
\* RuntimeError.
_parse_entry_definitions(table, id) ==
    LET Wrapped(defns) ==
            IF defns.ok THEN Returns([definitions |-> ById(defns.val)])
            ELSE [ok |-> FALSE,
                  val |-> Exception("RuntimeError", "Failed to parse definitions",
                                    defns.val.type)]
    IN  Wrapped(_parse_definitions_table(table, id))

(* Tables put together from blocks: a definition block is a header row and  *)
(* its fields, a special-notes block is rows of two cells.                  *)

MaxBlocks == 2

SeparatorRow == Row(<<Cell("", 1, None)>>)
HeaderRow(ord) ==
    Row(<<Cell("[noun]", 1,
               IF ord = NULL THEN None ELSE [class |-> "ord", name |-> <<"def", ord>>])>>)
NoteRow == Row(<<Cell("note", 1, None), Cell("usage", 1, None)>>)

\* The rows of a field: the first holds the name and the rowspan.
DefinitionField == <<Row(<<Cell("definition", 1, None), Cell("meaning", 1, None)>>)>>
SplitDefinitionField ==
    <<Row(<<Cell("definition", 2, None), Cell("meaning", 1, None)>>),
      Row(<<Cell("more", 1, None)>>)>>
CategoriesField ==
    <<Row(<<Cell("categories", 1, None),
            Cell("Numbers", 1, [class |-> "hy", path |-> <<"Numbers">>])>>)>>
ComponentsField ==
    <<Row(<<Cell("components", 2, None),
            Cell("word 2", 1, [class |-> "a", href |-> <<"/id/", "2">>])>>),
      Row(<<Cell("word 3", 1, [class |-> "a", href |-> <<"/id/", "3", "#def", "1">>])>>)>>
UnknownField == <<Row(<<Cell("sample sentences", 1, None), Cell("text", 1, None)>>)>>
LongUnknownField ==
    <<Row(<<Cell("notes", 2, None), Cell("first", 1, None)>>),
      Row(<<Cell("second", 1, None)>>)>>

KnownNames ==
    {"definition", "categories", "components", "classifier", "synonyms",
     "related words", "image"}

\* The fields of a definition block, in page order.
FieldLists ==
    { <<>>,
      <<DefinitionField>>,
      <<UnknownField>>,
      <<DefinitionField, UnknownField>>,
      <<LongUnknownField, DefinitionField>>,
      <<DefinitionField, CategoriesField>>,
      <<DefinitionField, LongUnknownField, ComponentsField>>,
      <<SplitDefinitionField>> }

Blocks ==
    { [header |-> <<HeaderRow(ord)>>, fields |-> fields] :
        ord \in {NULL, "1", "2"}, fields \in FieldLists }
      \cup { [header |-> <<>>, fields |-> <<notes>>] :
                notes \in { <<NoteRow>>, <<NoteRow, NoteRow>> } }

Tables == UNION { [1..n -> Blocks] : n \in 1..MaxBlocks }

RECURSIVE Flat(_)
\* The concatenation of a list of lists.
Flat(lists) == IF lists = <<>> THEN <<>> ELSE Head(lists) \o Flat(Tail(lists))

\* The rows of a table: a separator row before each block.
Rows(table) ==
    Flat([b \in 1..Len(table) |->
            <<SeparatorRow>> \o table[b].header \o Flat(table[b].fields)])

\* The table to parse is chosen at the start.
TableInit ==
    /\ site = [alias |-> <<1, 2, 3>>, comps |-> <<None, None, None>>, cats |-> NoCategories,
               plain |-> NoComponents]
    /\ entries = {} /\ redirects = {} /\ media = {}
    /\ words = <<>> /\ pronounciations = <<>>
    /\ session_initialized = FALSE /\ storage = {}
    /\ remote = [p \in Paths |-> "bytes-1"]
    /\ corrupted = 0
    /\ first = [id \in Ids |-> None]
    /\ last \in { [op |-> "input", table |-> table] : table \in Tables }
    /\ host = NoHost

\* The generator is run to its end on the table chosen, for the entry 1.
ParseDefinitionsTable ==
    /\ last.op = "input"
    /\ \E r \in {_parse_definitions_table(Rows(last.table), 1)} :
          last' = [op |-> "_parse_definitions_table", table |-> last.table,
                   ok |-> r.ok, val |-> r.val]
    /\ UNCHANGED <<host, site, entries, redirects, words, pronounciations, media,
                   session_initialized, storage, remote, corrupted, first>>

ParseEntryDefinitions ==
    /\ last.op = "input"
    /\ \E r \in {_parse_entry_definitions(Rows(last.table), 1)} :
          last' = [op |-> "_parse_entry_definitions", table |-> last.table,
                   ok |-> r.ok, val |-> r.val]
    /\ UNCHANGED <<host, site, entries, redirects, words, pronounciations, media,
                   session_initialized, storage, remote, corrupted, first>>

TableNext ==
    \/ ParseDefinitionsTable
    \/ ParseEntryDefinitions

TableSpec == TableInit /\ [][TableNext]_vars

---------------------------------------------------------------------------
(* Properties.  The state seen by an operation is the fetcher's state      *)
(* before it; last holds what the operation did and returned.              *)

\* The fetcher's state as a context in which nothing has been requested.
Now == Context(0, <<>>)

\* id's page exists and reports an id that is canonical (whose own page
\* reports it): id is canonical itself, or an alias of a canonical entry.
ReportsCanonical(id) ==
    /\ site.alias[id] # NotFound
    /\ site.alias[site.alias[id]] = site.alias[id]

\* The site serves a as an alias of the canonical entry b: a's page reports b,
\* b's page reports b, and a, not being canonical, is reported by no page.
IsAlias(a, b) ==
    /\ a # b
    /\ site.alias[a] = b
    /\ site.alias[b] = b
    /\ \A y \in Ids : site.alias[y] # a

\* The operation just performed was get_entry(id).
Called(id) == last.op = "get_entry" /\ last.id = id
Returned(id) == Called(id) /\ last.ok

\* Requests of a call: all answered with success; the GETs of id's page.
AllOK(log) == \A i \in 1..Len(log) : log[i].status = 200
EntryGets(log, id) ==
    { i \in 1..Len(log) : log[i].request = "GET entry" /\ log[i].id = id }

CorruptRow(id) == \E r \in entries : r.id = id /\ ~Deserializes(r.data)

\* Following redirect rows from some id leads back to that id.
RECURSIVE Reaches(_, _, _)
Reaches(from, to, steps) ==
    IF steps = 0 THEN FALSE
    ELSE \E r \in redirects :
            r.id = from /\ (r.entry_id = to \/ Reaches(r.entry_id, to, steps - 1))
RedirectCycle == \E id \in Ids : Reaches(id, id, Cardinality(Ids))

C3_NotFoundSignalled ==
    \A id \in Ids :
        (Called(id) /\ \E i \in EntryGets(last.log, id) : last.log[i].status = 404)
           => (~last.ok /\ last.val.type = "EntryNotFound")

\* C4: every get_entry call ends, returned or raised, after at most one
\* handshake and two GETs per entry page, whatever aliases, redirect chains
\* and component cycles the site and the cache hold; the interpreter's
\* recursion limit ends a call only when redirect rows form a cycle.
C4_Terminates ==
    last.op = "get_entry" =>
        /\ last.ok \in BOOLEAN
        /\ Len(last.log) <= 1 + 2 * Cardinality(Ids)
        /\ Cardinality({ i \in 1..Len(last.log) : last.log[i].request = "POST settings" }) <= 1
        /\ \A id \in Ids : Cardinality(EntryGets(last.log, id)) <= 2
        /\ (~last.ok /\ last.val.type = "RecursionError") => RedirectCycle

\* A component refers to entry j (the markers stand for the owning entry).
RefersTo(comps, j) ==
    comps # None /\ \E i \in 1..Len(comps.list) : comps.list[i] = EntryRef(j, NULL)
HasMarker(comps) ==
    comps # None /\ \E i \in 1..Len(comps.list) : comps.list[i] = SELF_REFERENCE
\* id's super-entry components hold a self-reference and an entry whose own
\* super-entry components refer back to id.
Cyclic(id) ==
    /\ site.alias[id] = id
    /\ HasMarker(site.comps[id])
    /\ \E j \in Ids \ {id} :
          site.alias[j] = j /\ RefersTo(site.comps[id], j) /\ RefersTo(site.comps[j], id)

\* A call on an entry with cyclic components has fetched both pages, resolved
\* the super entries and ended.
C4_Witness ==
    \E id \in Ids :
        /\ Cyclic(id) /\ Called(id) /\ AllOK(last.log)
        /\ \A j \in Ids : RefersTo(site.comps[id], j) => EntryGets(last.log, j) # {}
        /\ EntryGets(last.log, id) # {}

\* C5 (as stated): a call that fetches an entry whose super-entry components
\* cycle back to it, every request succeeding, raises the guard's
\* recursion fault.
C5_CycleRaises ==
    \A id \in Ids :
        (Cyclic(id) /\ Called(id) /\ AllOK(last.log) /\ EntryGets(last.log, id) # {})
           => (~last.ok /\ last.val.msg = "Unexpected recursion")

\* C6 (as stated): get_entry(id) on a corrupt entries row, every request it
\* issues succeeding, fetches id's page, stores the parsed entry in place of
\* the row and returns it.
C6_PurgeRefetch ==
    [][\A id \in Ids :
          (CorruptRow(id) /\ SelectRedirect(Now, id) = {}
             /\ last'.op = "get_entry" /\ last'.id = id /\ AllOK(last'.log))
          => /\ last'.ok
             /\ EntryGets(last'.log, id) # {}
             /\ \E r \in entries' :
                   r.id = last'.val.id /\ r.data = json_dumps(to_dict(last'.val))]_vars

\* C7 (as stated): deleting the entries row of id, as the purge of a corrupt
\* row does, leaves no redirect row with target id and no word or
\* pronunciation index row of id.
C7_Cascade ==
    \A id \in Ids : CorruptRow(id) =>
        LET c == DeleteEntry(Now, id)
        IN  /\ \A r \in c.redirects : r.entry_id # id
            /\ \A i \in 1..Len(c.words) : c.words[i].entry_id # id
            /\ \A i \in 1..Len(c.pronounciations) : c.pronounciations[i].entry_id # id

\* C8 (as stated): the word index never holds two rows with the same word,
\* entry id and definition id, an unset definition id included, and the cached
\* lookup of a word never lists a reference twice.
C8_WordIndexUnique ==
    /\ \A i, j \in 1..Len(words) : i # j => words[i] # words[j]
    /\ \A k \in 1..Len(words) :
          LET refs == local_ret(Now, words[k].word)
          IN  \A i, j \in 1..Len(refs) : i # j => refs[i] # refs[j]

\* C9: get_media_data(path, verify=True) on a cached row whose bytes are the
\* ones the site serves, its requests succeeding, returns the cached bytes,
\* executes no DELETE or INSERT on media and leaves the table as it was.
C9_VerifyUnchanged ==
    [][\A path \in Paths :
          (/\ SelectMedia(Now, path) # {}
           /\ \A r \in SelectMedia(Now, path) : r.data = remote[path]
           /\ last'.op = "get_media_data" /\ last'.path = path /\ last'.verify
           /\ AllOK(last'.log))
          => /\ last'.ok
             /\ last'.val = remote[path]
             /\ last'.sql = <<>>
             /\ media' = media]_vars

\* A verifying call on an unchanged file has fetched it once and returned.
C9_Witness ==
    /\ last.op = "get_media_data" /\ last.verify /\ last.ok
    /\ last.before # {}
    /\ \A r \in last.before : last.served = <<r.data>> /\ r \in media
    /\ last.sql = <<>>

\* C10: get_media_data(path, verify=True) on a path with no cached row, or
\* with a row whose bytes differ from the ones the site serves, its requests
\* succeeding, returns the bytes the site serves when it ends and leaves one
\* media row for path, holding those bytes and their hash; and a call without
\* verify on a cached path returns the row's bytes with no request.
C10_VerifyReplaces ==
    [][\A path \in Paths :
          /\ (/\ \A r \in SelectMedia(Now, path) : r.data # remote[path]
              /\ last'.op = "get_media_data" /\ last'.path = path /\ last'.verify
              /\ AllOK(last'.log))
             => /\ last'.ok
                /\ last'.val = remote'[path]
                /\ { r \in media' : r.path = path }
                     = {[path |-> path, sha256 |-> Sha256(remote'[path]),
                         data |-> remote'[path]]}
          /\ (/\ SelectMedia(Now, path) # {}
              /\ last'.op = "get_media_data" /\ last'.path = path /\ ~last'.verify)
             => /\ last'.ok
                /\ last'.log = <<>>
                /\ \A r \in SelectMedia(Now, path) : last'.val = r.data]_vars

\* A verifying call has met bytes other than the cached ones and has replaced
\* the row.
C10_Witness ==
    /\ last.op = "get_media_data" /\ last.verify /\ last.ok
    /\ last.before # {}
    /\ \A r \in last.before : r.data # last.val
    /\ last.sql = <<"DELETE FROM media", "INSERT INTO media">>
    /\ SelectMedia(Now, last.path)
         = {[path |-> last.path, sha256 |-> Sha256(last.val), data |-> last.val]}

\* The definition that a definition part of a reference names: the text
\* after its first piece.
DefText(def) == Concat(Tail(def))
\* The definition that parse_ref is to find after a decimal id: nothing, or
\* all the text after the first "#".
RefDefinition(def) ==
    IF def = <<>> THEN NULL
    ELSE IF def[1] = "#def" THEN "def" \o DefText(def) ELSE DefText(def)

\* C16 (as stated): parse_ref maps a decimal id, alone or followed by "#" and
\* a definition, to the reference; parse_entry_url maps
\* [scheme://][www.]thai-language.com/id/<id>[#def<definition>] to the
\* reference for every definition string; every other input yields no match.
C16_ParsesAllRefs ==
    LET in == last.input
    IN  /\ last.op = "parse_ref" =>
              last.val = IF in.prefix = <<>> /\ in.id \in DigitParts
                            /\ (in.def = <<>> \/ in.def[1] \in {"#", "#def"})
                         THEN EntryRef(NumberValue[in.id], RefDefinition(in.def))
                         ELSE None
        /\ last.op = "parse_entry_url" =>
              last.val = IF in.prefix \in HostParts
                            /\ in.id \in { <<"/id/">> \o d : d \in DigitParts }
                            /\ (in.def = <<>> \/ (Len(in.def) >= 2 /\ in.def[1] = "#def"))
                         THEN EntryRef(NumberValue[Tail(in.id)],
                                       IF in.def = <<>> THEN NULL ELSE DefText(in.def))
                         ELSE None

\* C16 (amended): parse_ref maps every string whose part before the first "#"
\* is an integer literal, possibly signed or between blanks, to the
\* reference, the definition being all the text after that "#";
\* parse_entry_url maps [[scheme://][www.]thai-language.com]/id/<id>, alone
\* or followed by #def<definition> where the definition starts with a digit
\* and holds no "?", to the reference; every other input yields no match.
C16_ParsesRefs ==
    LET in == last.input
    IN  /\ last.op = "parse_ref" =>
              last.val = IF in.prefix = <<>> /\ in.id \in DOMAIN NumberValue
                            /\ (in.def = <<>> \/ in.def[1] \in {"#", "#def"})
                         THEN EntryRef(NumberValue[in.id], RefDefinition(in.def))
                         ELSE None
        /\ last.op = "parse_entry_url" =>
              last.val = IF in.prefix \in HostParts \cup {<<>>}
                            /\ in.id \in { <<"/id/">> \o d : d \in DigitParts }
                            /\ \/ in.def = <<>>
                               \/ /\ Len(in.def) >= 2 /\ in.def[1] = "#def"
                                  /\ in.def[2] \in Digits
                                  /\ \A k \in 1..Len(in.def) : in.def[k] # "?"
                         THEN EntryRef(NumberValue[Tail(in.id)],
                                       IF in.def = <<>> THEN NULL ELSE DefText(in.def))
                         ELSE None

\* A full entry URL with a definition that starts with a digit has been
\* parsed to its reference.
C16_Witness ==
    /\ last.op = "parse_entry_url"
    /\ last.input = [prefix |-> <<"https://", "www.">> \o Host,
                     id |-> <<"/id/", "1", "2", "3">>, def |-> <<"#def", "2", "abc">>]
    /\ last.val = EntryRef(123, "2abc")

---------------------------------------------------------------------------
(* Lookups in the cached indexes. *)

\* The entry of an entries row.
CachedEntry(r) == from_dict(r.data.json)

\* q equals w up to letter case and Unicode normalisation.
SameWord(q, w) == NFC(Lower(q)) = NFC(Lower(w))

\* C11 (as stated): for every entry that is cached with headword w when
\* lookup_word(q) is called, q equal to w up to letter case and Unicode
\* normalisation, the call returns a list that contains the entry's
\* reference and issues no request.
C11_CachedWordFound ==
    [][(last'.op = "lookup_word" /\ ~last'.force) =>
          \A r \in entries :
             SameWord(last'.word, CachedEntry(r).entry) =>
                /\ last'.ok
                /\ last'.log = <<>>
                /\ \E i \in 1..Len(last'.val.list) :
                      last'.val.list[i] = EntryRef(r.id, NULL)]_vars

\* The reference a Location of SearchResponses names: /id/<id>[#def<d>].
LocationRef(location) ==
    IF location[1] # "/id/" THEN None
    ELSE EntryRef(DigitValue(location[2]), IF Len(location) = 2 THEN NULL ELSE location[4])

\* The search POSTs among the requests of log.
Searches(log) == { i \in 1..Len(log) : log[i].request = "POST search" }

C13_PronounciationFound ==
    last.op = "lookup_pronounciation" =>
        /\ last.log = <<>>
        /\ last.ok
        /\ \A i \in 1..Len(pronounciations) :
              (/\ pronounciations[i].pronounciation = last.text
               /\ \E r \in entries : r.id = pronounciations[i].entry_id)
                 => \E j \in 1..Len(last.val.list) :
                       last.val.list[j] = pronounciations[i].entry_id

---------------------------------------------------------------------------
(* The session handshake. *)

\* The settings handshakes among the requests of log, and those that succeeded.
Handshakes(log) == { i \in 1..Len(log) : log[i].request = "POST settings" }
Succeeded(log) == { i \in Handshakes(log) : log[i].status = 200 }

\* The handshake is lazy and single: none is sent once the session is
\* initialised, which it stays; a call sends at most one; a handshake is the
\* call's last request when it failed and is followed by a GET when it
\* succeeded; a call that issues no request leaves the session as it was.
LazySingleHandshake(before, after, log) ==
    /\ before => after /\ Handshakes(log) = {}
    /\ Cardinality(Handshakes(log)) <= 1
    /\ after = (before \/ Succeeded(log) # {})
    /\ \A i \in Handshakes(log) :
          IF log[i].status = 200
          THEN i < Len(log) /\ log[i + 1].request \in {"GET entry", "GET media"}
          ELSE i = Len(log)

\* The requests of kinds that log shows sent before the handshake succeeded.
Unprepared(before, log, kinds) ==
    { i \in 1..Len(log) :
        /\ log[i].request \in kinds
        /\ ~before
        /\ \A j \in 1..(i - 1) : j \notin Succeeded(log) }

\* The operations that record the requests they sent.
Fetching == {"get_entry", "get_media_data", "lookup_word", "lookup_pronounciation"}

\* C14 (as stated): the handshake succeeds at most once on a fetcher and is
\* not sent at construction or by calls served from the cache, and every
\* entry-page GET, media GET and search POST is sent only after it succeeded.
C14_HandshakeFirst ==
    /\ ~session_initialized
    /\ [][last'.op \in Fetching =>
             /\ LazySingleHandshake(session_initialized, session_initialized', last'.log)
             /\ Unprepared(session_initialized, last'.log,
                           {"GET entry", "GET media", "POST search"}) = {}]_vars

\* C14 (amended): as above for the entry-page GETs and the media GETs; the
\* search POST of lookup_word is sent without the handshake.
C14_HandshakeBeforeGet ==
    /\ ~session_initialized
    /\ [][last'.op \in Fetching =>
             /\ LazySingleHandshake(session_initialized, session_initialized', last'.log)
             /\ Unprepared(session_initialized, last'.log, {"GET entry", "GET media"}) = {}]_vars

\* On a fresh fetcher lookup_word has sent its search, then the handshake,
\* then the GET of the page the search redirected to.
C14_Witness ==
    /\ last.op = "lookup_word" /\ last.ok
    /\ Len(last.log) = 3
    /\ last.log[1].request = "POST search"
    /\ last.log[2] = [request |-> "POST settings", status |-> 200]
    /\ last.log[3].request = "GET entry"
    /\ session_initialized

---------------------------------------------------------------------------
(* Serialisation. *)

\* C15 (as stated): for every entry that the parser or get_super_entry can
\* build, from_dict(to_dict(entry)), also through the text of an entries
\* row, equals the entry.
C15_RoundTrip ==
    last.op \in {"round_trip", "cache_round_trip"} => last.val = last.entry

---------------------------------------------------------------------------
(* Super-entries. *)

\* comp is a self-reference marker or the repetition character.
IsMarker(comp) == comp = SELF_REFERENCE \/ comp = REPETITION_CHARACTER

\* The value for scheme that the derived entry of a definition of entry with
\* the given components is to carry.
JoinedPronounciation(entry, components, scheme) ==
    Join([i \in 1..Len(components) |->
            IF IsMarker(components[i]) THEN entry.pronounciations[scheme]
            ELSE Romanized(site.alias[components[i].id], scheme)])

\* C17: get_super_entry(entry, d) fails with EntryNotFound when d is not a
\* definition id of entry (and on its assertion when d's definition is not a
\* super-entry).  For a super-entry definition it fails only when a request
\* for a component entry fails, and otherwise returns an entry with entry's
\* id, the super-entry spelling as headword, the single definition d with
\* super_entry unset and the components in order, every self or repetition
\* marker replaced by a reference to entry's id, and for each scheme of entry
\* the space-joined values of the components, entry's own at each marker.
C17_SuperEntry ==
    last.op = "get_super_entry" =>
        LET entry == last.entry
            d == last.defn_id
            defn == DefinitionOf(entry, d)
            new == last.val.definitions[1]
        IN  IF d \notin DefinitionIds(entry)
            THEN ~last.ok /\ last.val.type = "EntryNotFound"
            ELSE IF defn.super_entry = None
            THEN ~last.ok /\ last.val.type = "AssertionError"
            ELSE IF ~last.ok
            THEN \E i \in 1..Len(last.log) : last.log[i].status # 200
            ELSE /\ last.val.id = entry.id
                 /\ last.val.entry = defn.super_entry
                 /\ Len(last.val.definitions) = 1
                 /\ new.id = d /\ new.super_entry = None
                 /\ new.definition = defn.definition
                 /\ Len(new.components.list) = Len(defn.components.list)
                 /\ \A i \in 1..Len(defn.components.list) :
                       /\ ~IsMarker(new.components.list[i])
                       /\ new.components.list[i] =
                             IF IsMarker(defn.components.list[i]) THEN EntryRef(entry.id, NULL)
                             ELSE defn.components.list[i]
                 /\ DOMAIN last.val.pronounciations = DOMAIN entry.pronounciations
                 /\ \A scheme \in DOMAIN entry.pronounciations :
                       last.val.pronounciations[scheme] =
                          JoinedPronounciation(entry, defn.components.list, scheme)

\* get_super_entry has returned the derived entry of a definition whose
\* components hold a marker and a reference to another entry.
C17_Witness ==
    /\ last.op = "get_super_entry" /\ last.ok
    /\ \E i, j \in 1..Len(DefinitionOf(last.entry, last.defn_id).components.list) :
          /\ IsMarker(DefinitionOf(last.entry, last.defn_id).components.list[i])
          /\ ~IsMarker(DefinitionOf(last.entry, last.defn_id).components.list[j])
    /\ Len(last.val.pronounciations[Schemes[1]].toks) >= 4

---------------------------------------------------------------------------
(* The plugin's lock. *)

\* The workers that are executing fetcher or formatter code.
InFetcher == { w \in Workers : host.pc[w] \in Locked }

\* C18: at most one worker is executing fetcher or formatter code, that
\* worker holds the lock, and the lock is free whenever no worker is in that
\* code, whether the last one left it by return or by an error: a worker
\* that waits for the lock then enters.
C18_MutualExclusion ==
    /\ Cardinality(InFetcher) <= 1
    /\ \A w \in Workers : w \in InFetcher <=> host.lock = w
    /\ InFetcher = {} => host.lock = 0
    /\ \A w \in Workers : (InFetcher = {} /\ host.pc[w] = "waiting") => ENABLED Acquire(w)

\* A worker has left the fetcher code by an error while the other waited
\* for the lock, which is free.
C18_Witness ==
    /\ last.op = "host" /\ last.exit = "error"
    /\ host.lock = 0
    /\ \E w \in Workers : w # last.worker /\ host.pc[w] = "waiting" /\ CanAcquire(host, w)

\* Workers w1 and w2 are in operations that asked for the same entry id,
\* each at a time when the cache had neither a row nor a redirect for it.
RequestSameUncached(w1, w2) ==
    /\ w1 # w2
    /\ host.pc[w1] # "idle" /\ host.pc[w2] # "idle"
    /\ host.kind[w1] # "cloze" /\ host.kind[w2] # "cloze"
    /\ host.id[w1] = host.id[w2]
    /\ host.uncached[w1] /\ host.uncached[w2]

\* Rows of the indexes for the entry itself.
WordRows(id) ==
    { i \in 1..Len(words) : words[i].entry_id = id /\ words[i].definition_id = NULL }
PronounciationRows(id, scheme) ==
    { i \in 1..Len(pronounciations) :
        /\ pronounciations[i].entry_id = id
        /\ pronounciations[i].definition_id = NULL
        /\ pronounciations[i].type = scheme }

\* C19 (as stated): when two host operations concurrently request the same
\* uncached entry id, the page of that id is fetched once by the two
\* together, the cache holds at most one entries row and one set of index
\* rows for the entry, exactly one once an operation has obtained it, and
\* the operations obtain equal entries, the one of the page.
C19_SingleFetch ==
    \A w1, w2 \in Workers : RequestSameUncached(w1, w2) =>
        LET id == host.id[w1]
            entry_id == site.alias[id]
            obtained == host.entry[w1] # None \/ host.entry[w2] # None
            rows == IF obtained THEN {1} ELSE {0, 1}
        IN  /\ host.gets[w1] + host.gets[w2] <= 1
            /\ Cardinality(SelectEntry(Now, entry_id)) \in rows
            /\ Cardinality(WordRows(entry_id)) \in rows
            /\ \A i \in 1..Len(Schemes) :
                  Cardinality(PronounciationRows(entry_id, Schemes[i])) \in rows
            /\ \A w \in {w1, w2} :
                  host.entry[w] # None => host.entry[w] = ParsePage(entry_id)


\* The definitions of entry that the suitability rule excludes.
Excluded(entry) ==
    { entry.definitions[i] : i \in { j \in 1..Len(entry.definitions) :
        \/ entry.definitions[j].super_entry # None
        \/ InCategory(entry.definitions[j], "The English Alphabet") } }

\* The strings joined into a definition field.
FieldParts(note) == { note.definition.parts[i] : i \in 1..Len(note.definition.parts) }

\* C20: the definition field of a note holds the text of no definition of the
\* formatted entry that is a super-entry or that has a category path
\* containing "The English Alphabet"; and when the formatted entry has no
\* other definition, entry_to_note raises "No suitable definitions found"
\* and returns no note.
C20_SuitableOnly ==
    (last.op = "entry_to_note" /\ last.entry # None) =>
        /\ last.ok =>
              \A d \in Excluded(last.entry) : html_escape(d.definition) \notin FieldParts(last.val)
        /\ (\A i \in 1..Len(last.entry.definitions) :
                last.entry.definitions[i] \in Excluded(last.entry)) =>
              /\ ~last.ok
              /\ last.val.type = "RuntimeError"
              /\ last.val.msg = "No suitable definitions found"

\* entry_to_note failed on an entry whose only definition that is not a
\* super-entry is categorised under "The English Alphabet".
C20_Witness ==
    /\ last.op = "entry_to_note" /\ ~last.ok
    /\ last.entry # None
    /\ last.val.type = "RuntimeError" /\ last.val.msg = "No suitable definitions found"
    /\ Len(last.entry.definitions) = 2
    /\ last.entry.definitions[1].super_entry = None
    /\ InCategory(last.entry.definitions[1], "The English Alphabet")
    /\ last.entry.definitions[2].super_entry # None

\* A note whose definition field holds the plain definition of an entry and
\* leaves out its super-entry definition.
C20_NoteWitness ==
    /\ last.op = "entry_to_note" /\ last.ok
    /\ Len(last.entry.definitions) = 2
    /\ last.entry.definitions[2].super_entry # None
    /\ FieldParts(last.val) = {html_escape(last.entry.definitions[1].definition)}


\* The (component entry id, definition id) pairs a walk emitted, in order.
Emitted(walk) == [i \in 1..Len(walk.val) |-> <<walk.val[i].id, walk.val[i].definition>>]

\* C21: the component walk behind the extra field ends, without running
\* into the interpreter's recursion limit, and when it returns it has
\* emitted no (component entry id, definition id) pair twice.
C21_WalkOnce ==
    (last.op = "entry_to_note" /\ last.walk # None) =>
        /\ last.walk.ok =>
              \A i, j \in 1..Len(last.walk.val) :
                  Emitted(last.walk)[i] = Emitted(last.walk)[j] => i = j
        /\ ~last.walk.ok => last.walk.val.type # "RecursionError"

\* The walk of an entry that lists itself and entry 2, whose components
\* refer back: entry 2 is emitted, then the entry itself, once each.
C21_Witness ==
    /\ last.op = "entry_to_note" /\ last.ok
    /\ last.ref = EntryRef(1, NULL)
    /\ site.plain[1] = List(<<SELF_REFERENCE, EntryRef(2, NULL)>>)
    /\ site.plain[2] = List(<<EntryRef(1, NULL)>>)
    /\ last.walk.ok
    /\ Len(last.walk.val) = 2
    /\ last.walk.val[1].id = 2 /\ last.walk.val[1].level = 0
    /\ last.walk.val[2].id = 1 /\ last.walk.val[2].level = 1


\* The last get_entry call was rejected by the recursion guard.
Rejected == last.op = "get_entry" /\ ~last.ok /\ last.val.msg = "Unexpected recursion"

\* C22 (as stated): the recursion guard removes its key on every exit of the
\* guarded call, so no key is in flight once a call has ended, and no call
\* is rejected as recursion because of a key that an earlier, failed
\* resolution left behind.
C22_GuardReleased == storage = {} /\ ~Rejected

\* The second half of C22 alone: no call is rejected as recursion.
C22_NeverRejected == ~Rejected


\* The last get_entry call returned an entry whose page it fetched.
FetchedAndReturned ==
    /\ last.op = "get_entry" /\ last.ok
    /\ \E i \in 1..Len(last.log) :
          /\ last.log[i].request = "GET entry" /\ last.log[i].status = 200
          /\ site.alias[last.log[i].id] = last.val.id

\* The indexes hold the derived entry of the super-entry definition defn of
\* entry, and the cached lookup of its spelling finds it without a request.
SuperIndexed(entry, defn) ==
    /\ \E i \in 1..Len(words) :
          words[i] = [word |-> NFC(defn.super_entry), entry_id |-> entry.id,
                      definition_id |-> defn.id]
    /\ \A n \in 1..Len(Schemes) :
          \E i \in 1..Len(pronounciations) :
              pronounciations[i] =
                 [pronounciation |->
                      NFC(JoinedPronounciation(entry, defn.components.list, Schemes[n])),
                  type |-> Schemes[n], entry_id |-> entry.id, definition_id |-> defn.id]
    /\ \E r \in {lookup_word(Now, defn.super_entry, FALSE, [status |-> 200], MaxDepth)} :
          /\ r.ok /\ r.c.log = <<>>
          /\ \E j \in 1..Len(r.val.list) : r.val.list[j] = EntryRef(entry.id, defn.id)

\* C23 (as stated): after get_entry(id) has fetched an entry and returned,
\* for every super-entry definition d of the entry the word index maps the
\* super-entry spelling to (entry id, d), the pronunciation index holds the
\* derived pronunciations under (entry id, d), and lookup_word(spelling)
\* returns EntryRef(entry id, d) without a request.  Checked where every
\* page reports a canonical id.
C23_SuperEntriesIndexed ==
    (FetchedAndReturned /\ \A id \in Ids : site.alias[id] = NotFound \/ ReportsCanonical(id)) =>
        \A k \in 1..Len(last.val.definitions) :
            last.val.definitions[k].super_entry # None
                => SuperIndexed(last.val, last.val.definitions[k])


\* The indexes hold a word row and, for every scheme, a pronunciation row
\* under (id, definition_id).
Indexed(id, definition_id) ==
    /\ \E i \in 1..Len(words) :
          words[i].entry_id = id /\ words[i].definition_id = definition_id
    /\ \A n \in 1..Len(Schemes) :
          \E i \in 1..Len(pronounciations) :
              /\ pronounciations[i].entry_id = id
              /\ pronounciations[i].definition_id = definition_id
              /\ pronounciations[i].type = Schemes[n]

\* C27 (as stated): in every reachable cache state an entries row exists for
\* an entry only if the index rows of the entry and of each of its
\* super-entry definitions exist too.
C27_RowsComplete ==
    \A r \in entries :
        Deserializes(r.data) =>
            /\ Indexed(r.id, NULL)
            /\ \A k \in 1..Len(CachedEntry(r).definitions) :
                  CachedEntry(r).definitions[k].super_entry # None
                      => Indexed(r.id, CachedEntry(r).definitions[k].id)


\* C28 (as stated): within one get_entry call, the nested calls made while
\* resolving super-entry components included, the page of any given id is
\* requested at most once.
C28_OneGetPerPage ==
    last.op = "get_entry" =>
        \A id \in Ids : Cardinality(EntryGets(last.log, id)) <= 1


\* The site serves the same bytes at every fetch of a call.
Unchanged(served) == \A k \in 1..Len(served) : served[k] = served[1]

\* A verifying call that meets unchanged bytes can run to its end on path.
CanVerify(path) ==
    ENABLED (\E n \in 1..2 : GetMediaData(path, TRUE, [k \in 1..n |-> remote[path]], 0))

\* C29: get_media_data(path, verify=True) ends whenever the site serves the
\* same bytes throughout the call: after exactly one fetch when a cached row
\* holds those bytes, after two otherwise (fewer only when a request fails,
\* which ends the call by raising).  Whatever the site serves, a fetch beyond
\* the second is made only after two consecutive fetches that returned
\* different bytes.
C29_VerifyTerminates ==
    /\ \A path \in Paths : CanVerify(path)
    /\ (last.op = "get_media_data" /\ last.verify) =>
          LET n == MediaFetches(last.log)
              matches == \E r \in last.before : r.data = last.served[1]
          IN  /\ n = Len(last.served)
              /\ (Unchanged(last.served) /\ last.ok) => n = IF matches THEN 1 ELSE 2
              /\ Unchanged(last.served) => n <= 2
              /\ \A k \in 3..n : last.served[k - 1] # last.served[k - 2]
              /\ ~last.ok => \E i \in 1..Len(last.log) : last.log[i].status # 200

\* A verifying call on a cached row that the site has since replaced: the
\* first fetch differs from the row, the second confirms the first.
C29_Witness ==
    /\ last.op = "get_media_data" /\ last.verify /\ last.ok
    /\ last.before # {}
    /\ \A r \in last.before : r.data # last.served[1]
    /\ Unchanged(last.served)
    /\ MediaFetches(last.log) = 2


\* The reference that a note's Id field writes out, None for other text.
FieldRef(field) == parse_ref(Strip(strip_html(field)))

\* The site has no page for the entry id that the field names.
PageMissing(field) ==
    FieldRef(field) # None /\ site.alias[FieldRef(field).id] = NotFound

\* The field names a definition id that the entry of its page does not have.
DefinitionMissing(field) ==
    /\ FieldRef(field) # None /\ ~PageMissing(field)
    /\ FieldRef(field).definition # NULL
    /\ FieldRef(field).definition
          \notin DefinitionIds(ParsePage(site.alias[FieldRef(field).id]))

\* The field is a text that is the word or a pronunciation of no entry.
TextUnmatched(field) ==
    /\ FieldRef(field) = None
    /\ parse_entry_url(Strip(strip_html(field)), None) = None
    /\ \A e \in Ids :
          /\ QueryKey(Text(WordToks(Strip(strip_html(field)), ""))) # QueryKey(Headword(e))
          /\ \A n \in 1..Len(Schemes) :
                QueryKey(Text(WordToks(Strip(strip_html(field)), "")))
                    # QueryKey(Romanized(e, Schemes[n]))

Failures(log) == { k \in 1..Len(log) : log[k].status = 500 }

\* C24: in an operation over all notes of a note type, a note whose
\* reference does not resolve (its text matches nothing, its entry id has no
\* page, or its definition id is absent from the entry) is skipped and the
\* loop goes on to the later notes; a failed request ends the operation at
\* the note it struck, as its last request, and no note is handled twice.
C24_UnresolvedSkipped ==
    last.op = "batch" =>
        /\ \A i \in 1..Len(last.notes) :
              (PageMissing(last.notes[i]) \/ DefinitionMissing(last.notes[i])
                 \/ TextUnmatched(last.notes[i])) =>
                 /\ i <= Len(last.outcomes) => last.outcomes[i].status = "skipped"
                 /\ i = Len(last.outcomes) + 1 => Failures(last.log) # {}
        /\ Failures(last.log) # {} => ~last.ok /\ Failures(last.log) = {Len(last.log)}
        /\ last.ok <=> Len(last.outcomes) = Len(last.notes)


\* The name in the first cell of a field's first row.
FieldName(field) == field[1].cells[1].text

IsDefinitionBlock(block) == block.header # <<>>

\* The definition blocks of a table, in page order.
DefinitionBlocks(table) == SelectSeq(table, IsDefinitionBlock)

\* The rows of every field are as the field's rule takes them: no
\* definition field is split over two rows.
WellFormed(table) ==
    \A b \in 1..Len(table) : \A f \in 1..Len(table[b].fields) :
        table[b].fields[f] # SplitDefinitionField

\* The definition id that a block's header row shows.
HeaderId(block) ==
    IF block.header[1].cells[1].tag = None THEN DEFAULT_DEFINITION
    ELSE block.header[1].cells[1].tag.name[2]

\* C25: the row walk of a well-formed definitions table succeeds and yields
\* one definition for each definition block, in page order and under the id
\* of the block's header, also for a block whose header row is followed at
\* once by the next separator row or the end of the table.
C25_MinimalDefinition ==
    (last.op = "_parse_definitions_table" /\ WellFormed(last.table)) =>
        /\ last.ok
        /\ Len(last.val) = Len(DefinitionBlocks(last.table))
        /\ \A k \in 1..Len(last.val) :
              last.val[k].id = HeaderId(DefinitionBlocks(last.table)[k])

\* The table without its special-notes blocks and without the fields of
\* unrecognized name.
Cleaned(table) ==
    LET blocks == DefinitionBlocks(table)
    IN  [b \in 1..Len(blocks) |->
            [blocks[b] EXCEPT !.fields =
                SelectSeq(@, LAMBDA field : FieldName(field) \in KnownNames)]]

\* Two outcomes of a parse are the same return value or the same exception.
SameOutcome(a, b) == a.ok = b.ok /\ a.val = b.val

\* C26: fields of unrecognized name and special-notes blocks do not change
\* the outcome of the row walk: it is the outcome for the table with those
\* fields and blocks removed, the same definitions in the same order or the
\* same failure, for _parse_definitions_table and _parse_entry_definitions.
C26_UnknownIgnored ==
    /\ last.op = "_parse_definitions_table" =>
          SameOutcome(last, _parse_definitions_table(Rows(Cleaned(last.table)), 1))
    /\ last.op = "_parse_entry_definitions" =>
          SameOutcome(last, _parse_entry_definitions(Rows(Cleaned(last.table)), 1))

\* A table with a special-notes block and a definition whose fields include
\* one of unrecognized name was parsed, and its definitions were returned.
C26_Witness ==
    /\ last.op = "_parse_definitions_table" /\ last.ok /\ Len(last.val) >= 1
    /\ \E b \in 1..Len(last.table) : ~IsDefinitionBlock(last.table[b])
    /\ \E b \in 1..Len(last.table) :
          /\ IsDefinitionBlock(last.table[b])
          /\ \E f \in 1..Len(last.table[b].fields) :
                FieldName(last.table[b].fields[f]) \notin KnownNames

====
